---- MODULE Spec2Model ----
(***************************************************************************)
(* Lifecycle execution engine of the e2e test framework: the environment   *)
(* (testEnv) with its role-tagged action list, the suite driver Run, the   *)
(* per-test driver Test and the feature executor execFeature.              *)
(*                                                                         *)
(* A context is modelled by the integer it carries (the tests store one    *)
(* int under ctxTestKeyInt); a hook or step function is modelled by the    *)
(* arithmetic it applies to that integer.  Whether a hook returns an error *)
(* and whether a step calls t.Fatal is decided when it is invoked.         *)
(***************************************************************************)
EXTENDS Integers, Sequences, FiniteSets, TLC

VARIABLES
    actions,    \* testEnv.actions : sequence of [id, role, funcs]
    ctx,        \* testEnv.ctx
    cfg,        \* testEnv.cfg : [featureRegex, assessmentRegex]
    runPc,      \* position of Run
    runActs,    \* Run's local slice being ranged over (setups, then finishes)
    ri,         \* Run's range index into runActs
    exitCode,   \* Run's local exitCode
    retCode,    \* what Run returned
    testPc,     \* position of Test
    feats,      \* Test's testFeatures argument
    fi,         \* Test's range index into testFeatures
    tActs,      \* Test's local slice being ranged over
    ti,         \* Test's range index into tActs
    fctx,       \* execFeature's ctx parameter, captured by the sub-test closures
    fpc,        \* position inside the feature sub-test closure
    si,         \* execFeature's range index into the steps of the current level
    failure,    \* the message Test gave t.Fatalf
    regCalls,   \* history: every registration call, [role, funcs], in order
    log,        \* history: every action.run call and every step call, in order
    entered,    \* the last call that was given or met a nil context or config
    testsRun,   \* Test calls the test runner has made inside Run
    par,        \* the Test calls running in parallel: call -> its locals
    plog,       \* history of the parallel Test calls
    kubeconfig, \* Config.kubeconfig
    client,     \* Config.client
    callers,    \* the goroutines inside Config.Client: caller -> its locals
    confLog,    \* history: every call on the Config and every client construction
    rnArgs,     \* the arguments RandomName is called with
    rnOut,      \* what RandomName returned
    providerRegistry,   \* framework.providerRegistry
    provOut,    \* how the last RegisterProvider / GetProviderGenerator call ended
    heap,       \* the backing arrays of the action slices: array -> its cells
    wenv,       \* the receiver of WithContext and the environment it returned
    wcall,      \* what the receiver held when WithContext was called
    kind,       \* one kindCluster value: kubeConfig, fetchOnce
    kindLog     \* history: every Create and KubeConfig call on that value

vars == <<actions, ctx, cfg, runPc, runActs, ri, exitCode, retCode,
          testPc, feats, fi, tActs, ti, fctx, fpc, si, failure, regCalls, log,
          entered, testsRun, par, plog, kubeconfig, client, callers, confLog,
          rnArgs, rnOut, providerRegistry, provOut, heap, wenv, wcall,
          kind, kindLog>>

envVars  == <<actions, ctx, cfg>>
runVars  == <<runPc, runActs, ri, exitCode, retCode>>
testVars == <<testPc, feats, fi, tActs, ti, fctx, fpc, si, failure>>
parVars  == <<par, plog>>
confVars == <<kubeconfig, client, callers, confLog>>
nameVars == <<rnArgs, rnOut>>
provVars == <<providerRegistry, provOut>>

withVars == <<heap, wenv, wcall>>
kindVars == <<kind, kindLog>>
extraVars == <<withVars, kindVars>>

\* what the lifecycle engine leaves alone
outsideVars == <<parVars, confVars, nameVars, provVars, extraVars>>
libVars == <<entered, testsRun, outsideVars>>

\* what the Config, RandomName and the provider registry leave alone
coreVars == <<envVars, runVars, testVars, regCalls, log, entered, testsRun, parVars>>
engineVars == <<coreVars, extraVars>>

-----------------------------------------------------------------------------
(* Bounds of the model *)

MaxActions == 3      \* registration calls
MaxSteps == 4        \* builder calls per feature
MaxFeatures == 2     \* features passed to one Test call
MaxExit == 1         \* exit codes 0..MaxExit of the test runner
MaxCallers == 2      \* goroutines calling Config.Client at the same time
MaxConfOps == 5      \* calls made on one Config
MaxPrefix == 3       \* length of the short prefixes given to RandomName
MaxN == 5            \* largest length asked of RandomName
MaxRand == 2         \* random bytes that vary from one RandomName call to another
MaxProvOps == 3      \* calls made on the provider registry
MaxTests == 2        \* test functions the test runner runs inside one Run

-----------------------------------------------------------------------------
(* Roles, levels and the functions hooks and steps are drawn from *)

roleSetup         == "roleSetup"
roleBeforeTest    == "roleBeforeTest"
roleBeforeFeature == "roleBeforeFeature"
roleAfterFeature  == "roleAfterFeature"
roleAfterTest     == "roleAfterTest"
roleFinish        == "roleFinish"

Roles == {roleSetup, roleBeforeTest, roleBeforeFeature, roleAfterFeature,
          roleAfterTest, roleFinish}

NoCode == "none"

\* the value that stands for a nil context.Context: no function of the
\* model computes it from another value
NilCtx == 0 - 1000000

Add(k) == [op |-> "add", k |-> k]
Mul(k) == [op |-> "mul", k |-> k]
Set(k) == [op |-> "set", k |-> k]

\* what a hook or step function does to the value its context carries
Apply(f, c) ==
    CASE f.op = "add" -> c + f.k
      [] f.op = "mul" -> c * f.k
      [] f.op = "set" -> f.k

\* the argument lists (funcs ...Func) a registration call is given
FuncSeqs == {<<>>, <<Add(20)>>, <<Mul(4), Add(0 - 20)>>}

ExitCodes == 0 .. MaxExit

-----------------------------------------------------------------------------
(* action.run: the functions of one action in order, the context threaded  *)
(* through them, stopping at the first that returns an error.  failAt is   *)
(* the position of the function that returns an error (0: none does);      *)
(* keep tells whether the failing function returns the context it was      *)
(* given or the one it built.                                              *)

RECURSIVE runFuncs(_, _, _, _, _)
runFuncs(funcs, i, c, failAt, keep) ==
    IF i > Len(funcs) THEN [ctx |-> c, err |-> FALSE, calls |-> Len(funcs)]
    ELSE IF i = failAt
         THEN [ctx |-> IF keep THEN c ELSE Apply(funcs[i], c),
               err |-> TRUE, calls |-> i]
         ELSE runFuncs(funcs, i + 1, Apply(funcs[i], c), failAt, keep)

run(a, c, failAt, keep) == runFuncs(a.funcs, 1, c, failAt, keep)

\* the outcomes one action.run call can have
Outcomes(a) == (0 .. Len(a.funcs)) \X BOOLEAN

-----------------------------------------------------------------------------
(* Registration: Setup, BeforeEachTest, BeforeEachFeature, AfterEachFeature *)
(* AfterEachTest, Finish                                                    *)

\* (variant: an action is appended whatever the number of functions)
register_AppendsEmpty(acts, role, funcs) ==
    Append(acts, [id |-> Len(acts) + 1, role |-> role, funcs |-> funcs])

register(acts, role, funcs) ==
    IF Len(funcs) = 0 THEN acts
    ELSE Append(acts, [id |-> Len(acts) + 1, role |-> role, funcs |-> funcs])

\* the code's loop: append every action whose role is r, in list order
RECURSIVE byRoleFrom(_, _, _)
byRoleFrom(acts, i, r) ==
    IF i > Len(acts) THEN <<>>
    ELSE IF acts[i].role = r
         THEN <<acts[i]>> \o byRoleFrom(acts, i + 1, r)
         ELSE byRoleFrom(acts, i + 1, r)

\* (variant: a later action of the role replaces the earlier ones)
getActionsByRole_LastOnly(acts, r) ==
    LET all == byRoleFrom(acts, 1, r) IN
    IF Len(all) = 0 THEN <<>> ELSE <<all[Len(all)]>>

getActionsByRole(acts, r) == byRoleFrom(acts, 1, r)

getSetupActions(acts)         == getActionsByRole(acts, roleSetup)
getBeforeTestActions(acts)    == getActionsByRole(acts, roleBeforeTest)
getBeforeFeatureActions(acts) == getActionsByRole(acts, roleBeforeFeature)
getAfterFeatureActions(acts)  == getActionsByRole(acts, roleAfterFeature)
getAfterTestActions(acts)     == getActionsByRole(acts, roleAfterTest)
\* (variant: the finish getter asks for the setup role)
getFinishActions_SetupRole(acts) == getActionsByRole(acts, roleSetup)

getFinishActions(acts)        == getActionsByRole(acts, roleFinish)

Idle == runPc = "idle" /\ testPc = "none"

Register(role, funcs) ==
    /\ Idle
    /\ Len(regCalls) < MaxActions
    /\ actions' = register(actions, role, funcs)
    /\ regCalls' = Append(regCalls, [role |-> role, funcs |-> funcs])
    /\ UNCHANGED <<ctx, cfg, runVars, testVars, log, libVars>>

Setup             == \E funcs \in FuncSeqs : Register(roleSetup, funcs)
BeforeEachTest    == \E funcs \in FuncSeqs : Register(roleBeforeTest, funcs)
BeforeEachFeature == \E funcs \in FuncSeqs : Register(roleBeforeFeature, funcs)
AfterEachFeature  == \E funcs \in FuncSeqs : Register(roleAfterFeature, funcs)
AfterEachTest     == \E funcs \in FuncSeqs : Register(roleAfterTest, funcs)
Finish            == \E funcs \in FuncSeqs : Register(roleFinish, funcs)

Registration ==
    \/ Setup
    \/ BeforeEachTest
    \/ BeforeEachFeature
    \/ AfterEachFeature
    \/ AfterEachTest
    \/ Finish

-----------------------------------------------------------------------------
(* History entries *)

\* one action.run call
HookEv(a, in, r) ==
    [kind |-> "hook", role |-> a.role, id |-> a.id, f |-> 0, name |-> <<>>,
     in |-> in, out |-> r.ctx, err |-> r.err]

\* the test runner m.Run() returning
RunnerEv(code) ==
    [kind |-> "runner", role |-> "", id |-> code, f |-> 0, name |-> <<>>,
     in |-> 0, out |-> 0, err |-> FALSE]

-----------------------------------------------------------------------------
(* Run *)

\* entry, past the nil check: the setups are collected once, before the loop
RunBegin ==
    /\ Idle
    /\ ctx # NilCtx
    /\ runPc' = "setup"
    /\ runActs' = getSetupActions(actions)
    /\ ri' = 1
    /\ UNCHANGED <<envVars, exitCode, retCode, testVars, log, regCalls, libVars>>

\* (variant: a setup error is only logged and the loop goes on)
RunSetupStepOf_LogAndContinue(a, failAt, keep) ==
    LET r == run(a, ctx, failAt, keep) IN
    /\ ctx' = r.ctx
    /\ log' = Append(log, HookEv(a, ctx, r))
    /\ runPc' = runPc
    /\ ri' = ri + 1

\* one iteration of the setup loop: log.Fatal (exit) on error
RunSetupStepOf(a, failAt, keep) ==
    LET r == run(a, ctx, failAt, keep) IN
    /\ ctx' = r.ctx
    /\ log' = Append(log, HookEv(a, ctx, r))
    /\ IF r.err
       THEN runPc' = "exited" /\ ri' = ri
       ELSE runPc' = runPc /\ ri' = ri + 1

RunSetupStep ==
    /\ runPc = "setup"
    /\ ri <= Len(runActs)
    /\ \E o \in Outcomes(runActs[ri]) : RunSetupStepOf(runActs[ri], o[1], o[2])
    /\ UNCHANGED <<actions, cfg, runActs, exitCode, retCode, testVars, regCalls, libVars>>

\* exitCode := m.Run(), then the finishes are collected
RunTests ==
    /\ runPc = "setup"
    /\ ri > Len(runActs)
    /\ \E code \in ExitCodes :
          /\ exitCode' = code
          /\ log' = Append(log, RunnerEv(code))
    /\ runPc' = "finish"
    /\ runActs' = getFinishActions(actions)
    /\ ri' = 1
    /\ UNCHANGED <<envVars, retCode, testVars, regCalls, libVars>>

\* (variant: the first finish error ends the loop)
RunFinishStepOf_BreakOnError(a, failAt, keep) ==
    LET r == run(a, ctx, failAt, keep) IN
    /\ ctx' = r.ctx
    /\ log' = Append(log, HookEv(a, ctx, r))
    /\ runPc' = runPc
    /\ ri' = IF r.err THEN Len(runActs) + 1 ELSE ri + 1
    /\ exitCode' = exitCode

\* (variant: a finish error turns the exit code into a failure)
RunFinishStepOf_ErrorFailsRun(a, failAt, keep) ==
    LET r == run(a, ctx, failAt, keep) IN
    /\ ctx' = r.ctx
    /\ log' = Append(log, HookEv(a, ctx, r))
    /\ runPc' = runPc
    /\ ri' = ri + 1
    /\ exitCode' = IF r.err THEN 1 ELSE exitCode

\* (variant: the context a failing Finish action returned is dropped)
RunFinishStepOf_ErrorKeepsContext(a, failAt, keep) ==
    LET r == run(a, ctx, failAt, keep) IN
    /\ ctx' = IF r.err THEN ctx ELSE r.ctx
    /\ log' = Append(log, HookEv(a, ctx, r))
    /\ runPc' = runPc
    /\ ri' = ri + 1
    /\ exitCode' = exitCode

\* one iteration of the finish loop: an error is logged, the loop goes on
RunFinishStepOf(a, failAt, keep) ==
    LET r == run(a, ctx, failAt, keep) IN
    /\ ctx' = r.ctx
    /\ log' = Append(log, HookEv(a, ctx, r))
    /\ runPc' = runPc
    /\ ri' = ri + 1
    /\ exitCode' = exitCode

RunFinishStep ==
    /\ runPc = "finish"
    /\ ri <= Len(runActs)
    /\ \E o \in Outcomes(runActs[ri]) : RunFinishStepOf(runActs[ri], o[1], o[2])
    /\ UNCHANGED <<actions, cfg, runActs, retCode, testVars, regCalls, libVars>>

RunReturn ==
    /\ runPc = "finish"
    /\ ri > Len(runActs)
    /\ runPc' = "returned"
    /\ retCode' = exitCode
    /\ UNCHANGED <<envVars, runActs, ri, exitCode, testVars, log, regCalls, libVars>>

Run ==
    \/ RunBegin
    \/ RunSetupStep
    \/ RunTests
    \/ RunFinishStep
    \/ RunReturn

-----------------------------------------------------------------------------
(* Names and regular expressions.  A name is the sequence of its          *)
(* characters.  A compiled regexp is modelled for the patterns the         *)
(* filters are given: a literal, optionally anchored with ^ and $;         *)
(* MatchString reports whether the pattern matches anywhere in the name.   *)

\* a *regexp.Regexp field: nil, or one compiled regexp
NoRegex == <<>>
Regex(bol, lit, eol) == <<[bol |-> bol, lit |-> lit, eol |-> eol]>>

MatchAt(p, s, k) ==
    /\ k + Len(p.lit) <= Len(s)
    /\ \A j \in 1 .. Len(p.lit) : s[k + j] = p.lit[j]
    /\ p.bol => k = 0
    /\ p.eol => k + Len(p.lit) = Len(s)

MatchString(re, s) == \E k \in 0 .. Len(s) : MatchAt(re[1], s, k)

nKeep    == <<"k", "e", "e", "p">>
nSkip    == <<"s", "k", "i", "p">>
nAddOne  == <<"a", "d", "d", "-", "1">>
nAddTwo  == <<"a", "d", "d", "-", "2">>
nTakeOne == <<"t", "a", "k", "e", "-", "1">>
nAssess  == <<"a", "s", "s", "e", "s", "s">>

reKeep == Regex(TRUE, nKeep, TRUE)                    \* "^keep$"
reAdd  == Regex(TRUE, <<"a", "d", "d", "-">>, FALSE)  \* "^add-"

-----------------------------------------------------------------------------
(* Features and steps: the builder New(name).Setup(fn).Assess(name, fn)    *)
(* .Teardown(fn).Feature() and GetStepsByLevel                              *)

LevelSetup    == "LevelSetup"
LevelAssess   == "LevelAssess"
LevelTeardown == "LevelTeardown"

\* one builder call: the level it tags the step with, the step's name, its function
Call(level, name, fn) == [level |-> level, name |-> name, fn |-> fn]

\* the builder appends one step per call; id is the step's place in the declaration
withStep(steps, c) ==
    Append(steps, [id |-> Len(steps) + 1, level |-> c.level, name |-> c.name,
                   fn |-> c.fn])

RECURSIVE buildSteps(_, _, _)
buildSteps(steps, calls, i) ==
    IF i > Len(calls) THEN steps
    ELSE buildSteps(withStep(steps, calls[i]), calls, i + 1)

Feature(name, calls) == [name |-> name, steps |-> buildSteps(<<>>, calls, 1)]

\* the steps of one level, in the order they have in the feature
RECURSIVE stepsFrom(_, _, _)
stepsFrom(steps, i, l) ==
    IF i > Len(steps) THEN <<>>
    ELSE IF steps[i].level = l
         THEN <<steps[i]>> \o stepsFrom(steps, i + 1, l)
         ELSE stepsFrom(steps, i + 1, l)

GetStepsByLevel(steps, l) == stepsFrom(steps, 1, l)

-----------------------------------------------------------------------------
(* History entries of Test *)

\* one step function called; fatal: it called t.Fatal and never returned
StepEv(f, st, in, out, fatal) ==
    [kind |-> "step", role |-> st.level, id |-> st.id, f |-> f, name |-> st.name,
     in |-> in, out |-> out, err |-> fatal]

\* an assessment sub-test skipped by the assessment regex
SkipStepEv(f, st, in) ==
    [kind |-> "skipStep", role |-> st.level, id |-> st.id, f |-> f,
     name |-> st.name, in |-> in, out |-> in, err |-> FALSE]

\* a feature sub-test skipped by the feature regex
SkipFeatureEv(f, name, in) ==
    [kind |-> "skipFeature", role |-> "", id |-> 0, f |-> f, name |-> name,
     in |-> in, out |-> in, err |-> FALSE]

\* Test called without features
NoFeaturesEv ==
    [kind |-> "noFeatures", role |-> "", id |-> 0, f |-> 0, name |-> <<>>,
     in |-> 0, out |-> 0, err |-> FALSE]

-----------------------------------------------------------------------------
(* Test *)

\* (variant: the number of features is not looked at)
TestCall_NoFeatureCheck(fs) ==
    /\ runPc \in {"idle", "tests"}
    /\ testPc = "none"
    /\ ctx # NilCtx
    /\ feats' = fs
    /\ testPc' = "beforeTest"
    /\ tActs' = getBeforeTestActions(actions)
    /\ ti' = 1
    /\ log' = log
    /\ UNCHANGED <<envVars, runVars, fi, fctx, fpc, si, failure, regCalls, libVars>>

\* (variant: Test does not look at e.ctx before it starts)
TestCall_NoNilCheck(fs) ==
    /\ runPc \in {"idle", "tests"}
    /\ testPc = "none"
    /\ feats' = fs
    /\ IF Len(fs) = 0
       THEN /\ testPc' = "returned"
            /\ log' = Append(log, NoFeaturesEv)
            /\ UNCHANGED <<tActs, ti>>
       ELSE /\ testPc' = "beforeTest"
            /\ tActs' = getBeforeTestActions(actions)
            /\ ti' = 1
            /\ log' = log
    /\ UNCHANGED <<envVars, runVars, fi, fctx, fpc, si, failure, regCalls, libVars>>

\* entry, past the nil check: nothing to do without features, else the
\* BeforeEachTest actions are collected.  Test is called by a test function, on its own or while
\* Run is inside m.Run()
TestCall(fs) ==
    /\ runPc \in {"idle", "tests"}
    /\ testPc = "none"
    /\ ctx # NilCtx
    /\ feats' = fs
    /\ IF Len(fs) = 0
       THEN /\ testPc' = "returned"
            /\ log' = Append(log, NoFeaturesEv)
            /\ UNCHANGED <<tActs, ti>>
       ELSE /\ testPc' = "beforeTest"
            /\ tActs' = getBeforeTestActions(actions)
            /\ ti' = 1
            /\ log' = log
    /\ UNCHANGED <<envVars, runVars, fi, fctx, fpc, si, failure, regCalls, libVars>>

NoFailure == ""

\* the message each of Test's four hook loops gives t.Fatalf
failureOf(pc) ==
    CASE pc = "beforeTest"    -> "BeforeEachTest failure"
      [] pc = "beforeFeature" -> "BeforeEachTest failure"
      [] pc = "afterFeature"  -> "BeforeEachTest failure"
      [] pc = "afterTest"     -> "AfterEachTest failure"

\* (variant: an error is reported with t.Errorf and the loop goes on)
TestHookStepOf_ErrorfAndContinue(a, failAt, keep) ==
    LET r == run(a, ctx, failAt, keep) IN
    /\ ctx' = r.ctx
    /\ log' = Append(log, HookEv(a, ctx, r))
    /\ testPc' = testPc
    /\ ti' = ti + 1
    /\ failure' = IF r.err THEN failureOf(testPc) ELSE failure

\* (variant: only an error of a BeforeEachTest action ends the test)
TestHookStepOf_FatalBeforeTestOnly(a, failAt, keep) ==
    LET r == run(a, ctx, failAt, keep) IN
    /\ ctx' = r.ctx
    /\ log' = Append(log, HookEv(a, ctx, r))
    /\ IF r.err /\ testPc = "beforeTest"
       THEN testPc' = "fatal" /\ ti' = ti
       ELSE testPc' = testPc /\ ti' = ti + 1
    /\ failure' = IF r.err THEN failureOf(testPc) ELSE failure

\* one iteration of a hook loop of Test: e.ctx takes what action.run
\* returned, then t.Fatalf on error
TestHookStepOf(a, failAt, keep) ==
    LET r == run(a, ctx, failAt, keep) IN
    /\ ctx' = r.ctx
    /\ log' = Append(log, HookEv(a, ctx, r))
    /\ IF r.err
       THEN testPc' = "fatal" /\ ti' = ti /\ failure' = failureOf(testPc)
       ELSE testPc' = testPc /\ ti' = ti + 1 /\ failure' = failure

InHookLoop ==
    testPc \in {"beforeTest", "beforeFeature", "afterFeature", "afterTest"}

TestHookStep ==
    /\ InHookLoop
    /\ ti <= Len(tActs)
    /\ \E o \in Outcomes(tActs[ti]) : TestHookStepOf(tActs[ti], o[1], o[2])
    /\ UNCHANGED <<actions, cfg, runVars, feats, fi, tActs, fctx, fpc, si, regCalls, libVars>>

\* the BeforeEachTest loop is over: the feature loop starts with the
\* first feature's BeforeEachFeature actions
TestFeatureLoop ==
    /\ testPc = "beforeTest"
    /\ ti > Len(tActs)
    /\ testPc' = "beforeFeature"
    /\ fi' = 1
    /\ tActs' = getBeforeFeatureActions(actions)
    /\ ti' = 1
    /\ UNCHANGED <<envVars, runVars, feats, fctx, fpc, si, log, failure, regCalls, libVars>>

\* (variant: the feature loop takes the features from the last to the first)
CurFeature_Backwards == feats[Len(feats) + 1 - fi]

\* the feature the current iteration of Test's feature loop is at
CurFeature == feats[fi]

\* (variant: the feature regex is not consulted)
execFeatureBegin_NoFilter ==
    /\ testPc = "beforeFeature"
    /\ ti > Len(tActs)
    /\ testPc' = "feature"
    /\ fctx' = ctx
    /\ si' = 1
    /\ fpc' = "setup"
    /\ log' = log
    /\ UNCHANGED <<envVars, runVars, feats, fi, tActs, ti, failure, regCalls, libVars>>

\* execFeature(e.ctx, t, feature): the feature sub-test starts; it is
\* skipped when the feature regex does not match its name
execFeatureBegin ==
    /\ testPc = "beforeFeature"
    /\ ti > Len(tActs)
    /\ testPc' = "feature"
    /\ fctx' = ctx
    /\ si' = 1
    /\ IF cfg.featureRegex # NoRegex
          /\ ~MatchString(cfg.featureRegex, CurFeature.name)
       THEN /\ fpc' = "done"
            /\ log' = Append(log, SkipFeatureEv(fi, CurFeature.name, ctx))
       ELSE /\ fpc' = "setup"
            /\ log' = log
    /\ UNCHANGED <<envVars, runVars, feats, fi, tActs, ti, failure, regCalls, libVars>>

StepOutcomes == {"ok", "fatal"}

\* (variant: the setup loop asks for the assessments and the assessment
\* loop for the setups)
CurLevel_Swapped ==
    CASE fpc = "setup"    -> LevelAssess
      [] fpc = "assess"   -> LevelSetup
      [] fpc = "teardown" -> LevelTeardown

\* the steps the closure is ranging over at its current position
CurLevel ==
    CASE fpc = "setup"    -> LevelSetup
      [] fpc = "assess"   -> LevelAssess
      [] fpc = "teardown" -> LevelTeardown

CurSteps == GetStepsByLevel(CurFeature.steps, CurLevel)

\* (variant: the loop takes the steps from the last to the first)
CurStep_Backwards == CurSteps[Len(CurSteps) + 1 - si]

\* the step the current iteration is at
CurStep == CurSteps[si]

\* (variant: t.Fatal in a setup or teardown step ends only that step)
FeatureStepOf_FatalContinues(st, outcome) ==
    /\ log' = Append(log, StepEv(fi, st, fctx,
                                 IF outcome = "ok" THEN Apply(st.fn, fctx) ELSE fctx,
                                 outcome = "fatal"))
    /\ fctx' = IF outcome = "ok" THEN Apply(st.fn, fctx) ELSE fctx
    /\ fpc' = fpc
    /\ si' = si + 1

\* a setup or teardown step runs in the feature sub-test itself: t.Fatal
\* ends the closure
FeatureStepOf(st, outcome) ==
    /\ log' = Append(log, StepEv(fi, st, fctx,
                                 IF outcome = "ok" THEN Apply(st.fn, fctx) ELSE fctx,
                                 outcome = "fatal"))
    /\ IF outcome = "ok"
       THEN fctx' = Apply(st.fn, fctx) /\ fpc' = fpc /\ si' = si + 1
       ELSE fctx' = fctx /\ fpc' = "done" /\ si' = si

\* (variant: skipping an assessment leaves the feature sub-test)
AssessStepOf_SkipEndsFeature(st, outcome) ==
    IF cfg.assessmentRegex # NoRegex
       /\ ~MatchString(cfg.assessmentRegex, st.name)
    THEN /\ fpc' = "done"
         /\ si' = si
         /\ fctx' = fctx
         /\ log' = Append(log, SkipStepEv(fi, st, fctx))
    ELSE /\ fpc' = fpc
         /\ si' = si + 1
         /\ fctx' = IF outcome = "ok" THEN Apply(st.fn, fctx) ELSE fctx
         /\ log' = Append(log, StepEv(fi, st, fctx,
                              IF outcome = "ok" THEN Apply(st.fn, fctx) ELSE fctx,
                              outcome = "fatal"))

\* (variant: an assessment that calls t.Fatal leaves the feature sub-test)
AssessStepOf_FatalEndsFeature(st, outcome) ==
    IF cfg.assessmentRegex # NoRegex
       /\ ~MatchString(cfg.assessmentRegex, st.name)
    THEN /\ fpc' = fpc
         /\ si' = si + 1
         /\ fctx' = fctx
         /\ log' = Append(log, SkipStepEv(fi, st, fctx))
    ELSE /\ fpc' = IF outcome = "ok" THEN fpc ELSE "done"
         /\ si' = IF outcome = "ok" THEN si + 1 ELSE si
         /\ fctx' = IF outcome = "ok" THEN Apply(st.fn, fctx) ELSE fctx
         /\ log' = Append(log, StepEv(fi, st, fctx,
                              IF outcome = "ok" THEN Apply(st.fn, fctx) ELSE fctx,
                              outcome = "fatal"))

\* (variant: the context an assessment built before it called t.Fatal is
\* kept)
AssessStepOf_FatalKeepsResult(st, outcome) ==
    /\ fpc' = fpc
    /\ si' = si + 1
    /\ IF cfg.assessmentRegex # NoRegex
          /\ ~MatchString(cfg.assessmentRegex, st.name)
       THEN /\ fctx' = fctx
            /\ log' = Append(log, SkipStepEv(fi, st, fctx))
       ELSE /\ fctx' = Apply(st.fn, fctx)
            /\ log' = Append(log, StepEv(fi, st, fctx, Apply(st.fn, fctx),
                                        outcome = "fatal"))

\* an assessment runs in a sub-test of its own: skipped when the
\* assessment regex does not match its name; t.Fatal ends only that sub-test
AssessStepOf(st, outcome) ==
    /\ fpc' = fpc
    /\ si' = si + 1
    /\ IF cfg.assessmentRegex # NoRegex
          /\ ~MatchString(cfg.assessmentRegex, st.name)
       THEN /\ fctx' = fctx
            /\ log' = Append(log, SkipStepEv(fi, st, fctx))
       ELSE /\ fctx' = IF outcome = "ok" THEN Apply(st.fn, fctx) ELSE fctx
            /\ log' = Append(log, StepEv(fi, st, fctx,
                                 IF outcome = "ok" THEN Apply(st.fn, fctx) ELSE fctx,
                                 outcome = "fatal"))

execFeatureStep ==
    /\ testPc = "feature"
    /\ fpc \in {"setup", "assess", "teardown"}
    /\ si <= Len(CurSteps)
    /\ \E outcome \in StepOutcomes :
          IF fpc = "assess"
          THEN AssessStepOf(CurStep, outcome)
          ELSE FeatureStepOf(CurStep, outcome)
    /\ UNCHANGED <<envVars, runVars, testPc, feats, fi, tActs, ti, failure, regCalls, libVars>>

\* (variant: the assessment loop is left out)
NextLevel_NoAssess(p) == "teardown"

\* the order of the three loops of the closure
NextLevel(p) == IF p = "setup" THEN "assess" ELSE "teardown"

\* one loop of the closure is over: the next one starts
execFeatureNextLevel ==
    /\ testPc = "feature"
    /\ fpc \in {"setup", "assess"}
    /\ si > Len(CurSteps)
    /\ fpc' = NextLevel(fpc)
    /\ si' = 1
    /\ UNCHANGED <<envVars, runVars, testPc, feats, fi, tActs, ti, fctx, log, failure, regCalls, libVars>>

\* (variant: what execFeature returns is not stored in e.ctx)
execFeatureReturn_DropsContext ==
    /\ testPc = "feature"
    /\ \/ fpc = "done"
       \/ fpc = "teardown" /\ si > Len(CurSteps)
    /\ ctx' = ctx
    /\ fpc' = "none"
    /\ testPc' = "afterFeature"
    /\ tActs' = getAfterFeatureActions(actions)
    /\ ti' = 1
    /\ UNCHANGED <<actions, cfg, runVars, feats, fi, fctx, si, log, failure, regCalls, libVars>>

\* (variant: the AfterEachFeature actions are left out after a feature the
\* feature regex skipped)
execFeatureReturn_NoHooksAfterSkip ==
    /\ testPc = "feature"
    /\ \/ fpc = "done"
       \/ fpc = "teardown" /\ si > Len(CurSteps)
    /\ ctx' = fctx
    /\ fpc' = "none"
    /\ testPc' = "afterFeature"
    /\ tActs' = IF Len(log) >= 1 /\ log[Len(log)].kind = "skipFeature"
              THEN <<>>
              ELSE getAfterFeatureActions(actions)
    /\ ti' = 1
    /\ UNCHANGED <<actions, cfg, runVars, feats, fi, fctx, si, log, failure, regCalls, libVars>>

\* (variant: a feature whose sub-test was left by t.Fatal ends the Test call)
execFeatureReturn_FailedFeatureEndsTest ==
    /\ testPc = "feature"
    /\ \/ fpc = "done"
       \/ fpc = "teardown" /\ si > Len(CurSteps)
    /\ ctx' = fctx
    /\ fpc' = "none"
    /\ IF Len(log) >= 1 /\ log[Len(log)].kind = "step" /\ log[Len(log)].err
       THEN testPc' = "fatal" /\ tActs' = tActs
       ELSE testPc' = "afterFeature" /\ tActs' = getAfterFeatureActions(actions)
    /\ ti' = 1
    /\ UNCHANGED <<actions, cfg, runVars, feats, fi, fctx, si, log, failure, regCalls, libVars>>

\* the closure is over (or was left by t.Skipf / t.Fatal): execFeature
\* returns its ctx, which becomes e.ctx; the AfterEachFeature loop starts
execFeatureReturn ==
    /\ testPc = "feature"
    /\ \/ fpc = "done"
       \/ fpc = "teardown" /\ si > Len(CurSteps)
    /\ ctx' = fctx
    /\ fpc' = "none"
    /\ testPc' = "afterFeature"
    /\ tActs' = getAfterFeatureActions(actions)
    /\ ti' = 1
    /\ UNCHANGED <<actions, cfg, runVars, feats, fi, fctx, si, log, failure, regCalls, libVars>>

\* (variant: the BeforeEachTest loop sits inside the feature loop)
TestNextFeature_BeforeTestPerFeature ==
    /\ testPc = "afterFeature"
    /\ ti > Len(tActs)
    /\ ti' = 1
    /\ IF fi < Len(feats)
       THEN /\ fi' = fi + 1
            /\ testPc' = "beforeFeature"
            /\ tActs' = getBeforeTestActions(actions) \o getBeforeFeatureActions(actions)
       ELSE /\ fi' = fi
            /\ testPc' = "afterTest"
            /\ tActs' = getAfterTestActions(actions)
    /\ UNCHANGED <<envVars, runVars, feats, fctx, fpc, si, log, failure, regCalls, libVars>>

\* (variant: the BeforeEachFeature loop sits before the feature loop)
TestNextFeature_BeforeFeatureOnce ==
    /\ testPc = "afterFeature"
    /\ ti > Len(tActs)
    /\ ti' = 1
    /\ IF fi < Len(feats)
       THEN /\ fi' = fi + 1
            /\ testPc' = "beforeFeature"
            /\ tActs' = <<>>
       ELSE /\ fi' = fi
            /\ testPc' = "afterTest"
            /\ tActs' = getAfterTestActions(actions)
    /\ UNCHANGED <<envVars, runVars, feats, fctx, fpc, si, log, failure, regCalls, libVars>>

\* the AfterEachFeature loop is over: the next feature, or after the last
\* one the AfterEachTest actions
TestNextFeature ==
    /\ testPc = "afterFeature"
    /\ ti > Len(tActs)
    /\ ti' = 1
    /\ IF fi < Len(feats)
       THEN /\ fi' = fi + 1
            /\ testPc' = "beforeFeature"
            /\ tActs' = getBeforeFeatureActions(actions)
       ELSE /\ fi' = fi
            /\ testPc' = "afterTest"
            /\ tActs' = getAfterTestActions(actions)
    /\ UNCHANGED <<envVars, runVars, feats, fctx, fpc, si, log, failure, regCalls, libVars>>

TestReturn ==
    /\ testPc = "afterTest"
    /\ ti > Len(tActs)
    /\ testPc' = "returned"
    /\ UNCHANGED <<envVars, runVars, feats, fi, tActs, ti, fctx, fpc, si, log, failure, regCalls, libVars>>

TestSteps ==
    \/ TestHookStep
    \/ TestFeatureLoop
    \/ execFeatureBegin
    \/ execFeatureStep
    \/ execFeatureNextLevel
    \/ execFeatureReturn
    \/ TestNextFeature
    \/ TestReturn

-----------------------------------------------------------------------------
(* newTestEnv *)

\* the goroutines that may be inside Config.Client
Callers == 1 .. MaxCallers

\* a klient.Client field or result: nil, or one handle
NoClient == <<>>

\* a goroutine that is not inside Config.Client
IdleCaller == [pc |-> "idle", path |-> "", got |-> NoClient]

\* envconf.New(): no kubeconfig, no client
InitConfig(path, cl) ==
    /\ kubeconfig = path
    /\ client = cl
    /\ callers = [t \in Callers |-> IdleCaller]
    /\ confLog = <<>>

\* the two Test calls that top-level tests running in parallel make
ParCalls == {1, 2}

\* a Test call that has not started
IdleTest ==
    [pc |-> "none", ph |-> "read", fs |-> <<>>, acts |-> <<>>, i |-> 1, fi |-> 1,
     read |-> 0]

InitPar ==
    /\ par = [t \in ParCalls |-> IdleTest]
    /\ plog = <<>>

\* the arguments of a RandomName call that has not been made yet
InitName(prefix, n) ==
    /\ rnArgs = [prefix |-> prefix, n |-> n]
    /\ rnOut = <<>>

\* framework's init(): an empty registry
InitProvider ==
    /\ providerRegistry = {}
    /\ provOut = <<>>

\* a slice that has no backing array
NilSlice == [arr |-> 0, len |-> 0]

\* an environment that was not made
NoEnv == [made |-> FALSE, ctx |-> 0, cfg |-> 0, actions |-> NilSlice,
          added |-> <<>>, calls |-> 0]

\* no environment, no array
InitWith ==
    /\ heap = <<>>
    /\ wenv = [e \in {1, 2} |-> NoEnv]
    /\ wcall = <<>>

\* NewKindClusterProvider(): no kubeconfig, fetchOnce not done
InitKind ==
    /\ kind = [name |-> "", kubeConfig |-> <<>>, done |-> FALSE, fetches |-> 0]
    /\ kindLog = <<>>

InitExtra == InitWith /\ InitKind

\* the state outside the environment, before anything was called
InitLib ==
    /\ InitConfig("", NoClient)
    /\ InitPar
    /\ InitExtra
    /\ InitName(<<>>, 0)
    /\ InitProvider

\* the registration calls that built an action list
callsOf(acts) == [i \in 1 .. Len(acts) |-> [role |-> acts[i].role, funcs |-> acts[i].funcs]]

InitEnv(acts, c, config) ==
    /\ actions = acts
    /\ ctx = c
    /\ cfg = config
    /\ runPc = "idle"
    /\ runActs = <<>>
    /\ ri = 1
    /\ exitCode = NoCode
    /\ retCode = NoCode
    /\ testPc = "none"
    /\ feats = <<>>
    /\ fi = 1
    /\ tActs = <<>>
    /\ ti = 1
    /\ fctx = 0
    /\ fpc = "none"
    /\ si = 1
    /\ failure = NoFailure
    /\ regCalls = callsOf(acts)
    /\ log = <<>>
    /\ entered = <<>>
    /\ testsRun = 0

Config(fre, are) == [featureRegex |-> fre, assessmentRegex |-> are]

\* newTestEnv(): the background context, an empty config, no action
Init == InitEnv(<<>>, 0, Config(NoRegex, NoRegex)) /\ InitLib

Next == Registration \/ Run

\* the suite driver on an environment registered in any way
Spec == Init /\ [][Next]_vars

-----------------------------------------------------------------------------
(* Environments as the tests set them up, for the per-test driver *)

RECURSIVE registerAll(_, _, _)
registerAll(acts, calls, i) ==
    IF i > Len(calls) THEN acts
    ELSE registerAll(register(acts, calls[i][1], calls[i][2]), calls, i + 1)

\* env.BeforeEachFeature(+20).AfterEachFeature(-20)
envBracket ==
    registerAll(<<>>, << <<roleBeforeFeature, <<Add(20)>> >>,
                         <<roleAfterFeature, <<Add(0 - 20)>> >> >>, 1)

\* env.AfterEachTest(-20).BeforeEachTest(set 44), with a Setup and a
\* Finish action that Test has to leave alone
envBeforeAfter ==
    registerAll(<<>>, << <<roleSetup, <<Set(7)>> >>,
                         <<roleAfterTest, <<Add(0 - 20)>> >>,
                         <<roleBeforeTest, <<Set(44)>> >>,
                         <<roleFinish, <<Set(9)>> >> >>, 1)

\* two actions of every per-test role, registered out of execution order
envAll ==
    registerAll(<<>>, << <<roleAfterTest, <<Mul(2)>> >>,
                         <<roleAfterFeature, <<Add(0 - 20)>> >>,
                         <<roleBeforeTest, <<Add(2)>> >>,
                         <<roleBeforeFeature, <<Add(20)>> >>,
                         <<roleBeforeTest, <<Mul(3), Add(1)>> >>,
                         <<roleAfterTest, <<Add(1)>> >> >>, 1)

TestEnvs == {<<>>, envBracket, envBeforeAfter, envAll}

TestConfigs == {Config(NoRegex, NoRegex), Config(reKeep, NoRegex),
                Config(NoRegex, reAdd)}

\* the features the tests pass to Test
featMul4 == Feature(nAssess, <<Call(LevelAssess, nAssess, Mul(4))>>)
featKeep ==
    Feature(nKeep, <<Call(LevelTeardown, <<>>, Add(0 - 1)),
                     Call(LevelAssess, nAddOne, Add(42)),
                     Call(LevelSetup, <<>>, Mul(2))>>)
featSkip == Feature(nSkip, <<Call(LevelAssess, nTakeOne, Add(1))>>)

TestFeatures == {featMul4, featKeep, featSkip}

RECURSIVE SeqsUpTo(_, _)
SeqsUpTo(S, n) ==
    IF n = 0 THEN {<<>>}
    ELSE LET shorter == SeqsUpTo(S, n - 1) IN
         shorter \cup {Append(q, x) : q \in {r \in shorter : Len(r) = n - 1}, x \in S}

InitTest ==
    /\ \E acts \in TestEnvs, config \in TestConfigs : InitEnv(acts, 0, config)
    /\ InitLib

\* the argument lists (testFeatures ...Feature) of a Test call
FeatureLists == SeqsUpTo(TestFeatures, MaxFeatures)

Test ==
    /\ testPc = "none"
    /\ \E fs \in FeatureLists : TestCall(fs)

NextTest == Test \/ TestSteps

\* the per-test driver on the tests' environments and features
SpecTest == InitTest /\ [][NextTest]_vars

-----------------------------------------------------------------------------
(* One feature declared by any sequence of builder calls *)

BuilderCalls ==
    {Call(LevelSetup, <<>>, Mul(2)),
     Call(LevelAssess, nAddOne, Add(1)),
     Call(LevelAssess, nAddTwo, Add(2)),
     Call(LevelAssess, nTakeOne, Add(0 - 1)),
     Call(LevelTeardown, <<>>, Mul(3))}

FeatureConfigs == {Config(NoRegex, NoRegex), Config(NoRegex, reAdd)}

InitFeature ==
    /\ \E config \in FeatureConfigs : InitEnv(envBracket, 42, config)
    /\ InitLib

\* the declarations: every sequence of at most MaxSteps builder calls
Declarations == SeqsUpTo(BuilderCalls, MaxSteps)

TestFeature ==
    /\ testPc = "none"
    /\ \E calls \in Declarations : TestCall(<<Feature(nKeep, calls)>>)

NextFeature == TestFeature \/ TestSteps

\* the per-test driver on one feature, declared in any way
SpecFeature == InitFeature /\ [][NextFeature]_vars

-----------------------------------------------------------------------------
(* Config: WithKubeconfigFile, WithClient, Client.  Client is taken one    *)
(* read or write of the Config's fields at a time, so that the calls of    *)
(* several goroutines interleave as the code lets them.                    *)

Paths == {"a.kubeconfig", "b.kubeconfig"}

\* the client that the n-th klient.NewWithKubeConfigFile call built from path
Handle(path, n) == <<[path |-> path, n |-> n]>>

\* a client made by the caller and handed to WithClient
givenClient == Handle("", 0)

\* history entries of the Config: the call, the goroutine that made it (0:
\* the one that owns the Config), the file path, the client (returned,
\* given, or cached when the path was set), the error
ConfEv(op, by, path, got, err) ==
    [op |-> op, by |-> by, path |-> path, got |-> got, err |-> err]

Builds == SelectSeq(confLog, LAMBDA e : e.op = "build")

Returns == SelectSeq(confLog, LAMBDA e : e.op = "Client")

AllIdle == \A t \in Callers : callers[t].pc = "idle"

WithKubeconfigFile ==
    /\ AllIdle
    /\ Len(confLog) < MaxConfOps
    /\ \E p \in Paths \cup {""} :
          /\ kubeconfig' = p
          /\ confLog' = Append(confLog, ConfEv("WithKubeconfigFile", 0, p, client, ""))
    /\ UNCHANGED <<client, callers, engineVars, nameVars, provVars>>

WithClient ==
    /\ AllIdle
    /\ Len(confLog) < MaxConfOps
    /\ \E cl \in {givenClient, NoClient} :
          /\ client' = cl
          /\ confLog' = Append(confLog, ConfEv("WithClient", 0, "", cl, ""))
    /\ UNCHANGED <<kubeconfig, callers, engineVars, nameVars, provVars>>

\* Client returns (got, err) to goroutine t
ClientReturns(t, log0, got, err) ==
    /\ confLog' = Append(log0, ConfEv("Client", t, kubeconfig, got, err))
    /\ callers' = [callers EXCEPT ![t] = IdleCaller]

\* (variant: the cached client is not looked at)
ClientCheck_NoCache(t) ==
    /\ callers[t].pc = "idle"
    /\ Len(confLog) < MaxConfOps
    /\ callers' = [callers EXCEPT ![t].pc = "path"]
    /\ UNCHANGED <<kubeconfig, client, confLog>>

\* if c.client != nil { return c.client, nil }
ClientCheck(t) ==
    /\ callers[t].pc = "idle"
    /\ Len(confLog) < MaxConfOps
    /\ IF client # NoClient
       THEN ClientReturns(t, confLog, client, "")
       ELSE /\ callers' = [callers EXCEPT ![t].pc = "path"]
            /\ confLog' = confLog
    /\ UNCHANGED <<kubeconfig, client>>

\* if c.kubeconfig == "" { return nil, error }
ClientPath(t) ==
    /\ callers[t].pc = "path"
    /\ IF kubeconfig = ""
       THEN ClientReturns(t, confLog, NoClient, "kubeconfig not set")
       ELSE /\ callers' = [callers EXCEPT ![t].pc = "build", ![t].path = kubeconfig]
            /\ confLog' = confLog
    /\ UNCHANGED <<kubeconfig, client>>

\* (variant: a client that could not be built is stored all the same)
ClientBuild_StoresFailure(t) ==
    /\ callers[t].pc = "build"
    /\ \E ok \in BOOLEAN :
          LET ev == ConfEv("build", t, callers[t].path, NoClient, IF ok THEN "" ELSE "failed")
              h  == Handle(callers[t].path, Len(Builds) + 1)
          IN /\ callers' = [callers EXCEPT ![t].pc = "store", ![t].got = h]
             /\ confLog' = Append(confLog, ev)
    /\ UNCHANGED <<kubeconfig, client>>

\* client, err := klient.NewWithKubeConfigFile(c.kubeconfig), and the
\* return when it failed
ClientBuild(t) ==
    /\ callers[t].pc = "build"
    /\ \E ok \in BOOLEAN :
          LET ev == ConfEv("build", t, callers[t].path, NoClient, IF ok THEN "" ELSE "failed")
              h  == Handle(callers[t].path, Len(Builds) + 1)
          IN IF ok
             THEN /\ callers' = [callers EXCEPT ![t].pc = "store", ![t].got = h]
                  /\ confLog' = Append(confLog, ev)
             ELSE ClientReturns(t, Append(confLog, ev), NoClient, "envconfig: client failed")
    /\ UNCHANGED <<kubeconfig, client>>

\* c.client = client
ClientStore(t) ==
    /\ callers[t].pc = "store"
    /\ client' = callers[t].got
    /\ callers' = [callers EXCEPT ![t].pc = "return"]
    /\ UNCHANGED <<kubeconfig, confLog>>

\* return c.client, nil
ClientReturn(t) ==
    /\ callers[t].pc = "return"
    /\ ClientReturns(t, confLog, client, "")
    /\ UNCHANGED <<kubeconfig, client>>

Client(t) ==
    /\ \/ ClientCheck(t)
       \/ ClientPath(t)
       \/ ClientBuild(t)
       \/ ClientStore(t)
       \/ ClientReturn(t)
    /\ UNCHANGED <<engineVars, nameVars, provVars>>

\* the state of everything but the Config
InitRest ==
    /\ InitEnv(<<>>, 0, Config(NoRegex, NoRegex))
    /\ InitPar
    /\ InitExtra
    /\ InitName(<<>>, 0)
    /\ InitProvider

InitClient == InitRest /\ InitConfig("", NoClient)

\* one goroutine using the Config
ClientCall == Client(1)

NextClient == WithKubeconfigFile \/ WithClient \/ ClientCall

\* a Config used by one goroutine: any sequence of calls
SpecClient == InitClient /\ [][NextClient]_vars

InitClientRace == InitRest /\ \E p \in Paths : InitConfig(p, NoClient)

ClientRace == \E t \in Callers : Client(t)

NextClientRace == ClientRace

\* a Config with a file path and no client, used by several goroutines
SpecClientRace == InitClientRace /\ [][NextClientRace]_vars

-----------------------------------------------------------------------------
(* RandomName: strings are sequences of one-character strings *)

\* the length RandomName uses when it is asked for length 0
DefaultLength == 32

HexDigits == <<"0", "1", "2", "3", "4", "5", "6", "7",
               "8", "9", "a", "b", "c", "d", "e", "f">>

\* hex.EncodeToString: two digits for each byte, the high one first
RECURSIVE EncodeToString(_)
EncodeToString(p) ==
    IF p = <<>> THEN <<>>
    ELSE <<HexDigits[(Head(p) \div 16) + 1], HexDigits[(Head(p) % 16) + 1]>>
         \o EncodeToString(SubSeq(p, 2, Len(p)))

\* s[:n], which panics when n is not within the string
SliceTo(s, n) ==
    IF n >= 0 /\ n <= Len(s) THEN SubSeq(s, 1, n) ELSE <<"panic">>

\* (variant: the name is not cut down to n)
RandomName_NoSlice(prefix, n, p) ==
    LET m == IF n = 0 THEN DefaultLength ELSE n IN
    IF Len(prefix) >= m
    THEN prefix
    ELSE prefix \o <<"-">> \o EncodeToString(p)

\* RandomName(prefix, n), where p is what rand.Read put into the n bytes
RandomName(prefix, n, p) ==
    LET m == IF n = 0 THEN DefaultLength ELSE n IN
    IF Len(prefix) >= m
    THEN prefix
    ELSE SliceTo(prefix \o <<"-">> \o EncodeToString(p), m)

\* the values a random byte takes in the model
Bytes == {0, 171, 255}

\* what rand.Read may put into n bytes: the first MaxRand bytes vary freely,
\* the others are all the same
RandomBytes(n) ==
    { [i \in 1 .. n |-> IF i <= MaxRand THEN q[i] ELSE b] :
          q \in [1 .. MaxRand -> Bytes], b \in Bytes }

\* the n bytes RandomName makes, none when it returns the prefix
RandomInputs(prefix, n) ==
    LET m == IF n = 0 THEN DefaultLength ELSE n IN
    IF Len(prefix) >= m THEN {<<>>} ELSE RandomBytes(m)

\* a call of RandomName with the arguments of the initial state
RandomNameCall ==
    /\ rnOut = <<>>
    /\ \E p \in RandomInputs(rnArgs.prefix, rnArgs.n) :
          rnOut' = <<RandomName(rnArgs.prefix, rnArgs.n, p)>>
    /\ UNCHANGED <<rnArgs, engineVars, confVars, provVars>>

PrefixChars == {"t", "-"}

\* the prefixes of up to MaxPrefix characters
ShortPrefixes ==
    UNION { [1 .. k -> PrefixChars] : k \in 0 .. MaxPrefix }

\* prefixes about as long as the default length
LongPrefixes ==
    { [i \in 1 .. k |-> "p"] : k \in (DefaultLength - 2) .. (DefaultLength + 1) }

Prefixes == ShortPrefixes \cup LongPrefixes

Lengths == (0 - 1) .. MaxN

InitRandomName ==
    /\ InitEnv(<<>>, 0, Config(NoRegex, NoRegex))
    /\ InitPar
    /\ InitExtra
    /\ InitProvider
    /\ InitConfig("", NoClient)
    /\ \E prefix \in Prefixes, n \in Lengths : InitName(prefix, n)

NextName == RandomNameCall

\* one call of RandomName for every pair of arguments
SpecName == InitRandomName /\ [][NextName]_vars

-----------------------------------------------------------------------------
(* The provider registry: a map, kept as the set of its entries *)

ProviderNames == {"kind", "kwok"}

\* the generators that are registered
Generators == {"genA", "genB"}

\* providerRegistry[providerName] with its ok flag
HasProvider(reg, name) == \E e \in reg : e.name = name

Lookup(reg, name) == (CHOOSE e \in reg : e.name = name).f

\* one call on the registry: what it was given, whether it panicked, what
\* it returned, and the registry before and after it
ProvEv(op, name, f, panicked, before, after) ==
    [op |-> op, name |-> name, f |-> f, panicked |-> panicked,
     before |-> before, after |-> after]

\* (variant: a duplicate name replaces the generator)
RegisterProviderOf_Overwrite(providerName, f) ==
    LET after == {e \in providerRegistry : e.name # providerName}
                     \cup {[name |-> providerName, f |-> f]} IN
    /\ providerRegistry' = after
    /\ provOut' = Append(provOut,
                         ProvEv("register", providerName, f, FALSE,
                                providerRegistry, after))

\* RegisterProvider(providerName, f): panics on a name that is there
RegisterProviderOf(providerName, f) ==
    IF HasProvider(providerRegistry, providerName)
    THEN /\ providerRegistry' = providerRegistry
         /\ provOut' = Append(provOut,
                              ProvEv("register", providerName, f, TRUE,
                                     providerRegistry, providerRegistry))
    ELSE LET after == providerRegistry \cup {[name |-> providerName, f |-> f]} IN
         /\ providerRegistry' = after
         /\ provOut' = Append(provOut,
                              ProvEv("register", providerName, f, FALSE,
                                     providerRegistry, after))

RegisterProvider ==
    /\ Len(provOut) < MaxProvOps
    /\ \E providerName \in ProviderNames, f \in Generators :
          RegisterProviderOf(providerName, f)
    /\ UNCHANGED <<engineVars, confVars, nameVars>>

\* (variant: a name that is not there gives the zero generator)
GetProviderGenerator_NilWhenMissing ==
    /\ Len(provOut) < MaxProvOps
    /\ \E providerName \in ProviderNames :
          provOut' = Append(provOut,
              IF HasProvider(providerRegistry, providerName)
              THEN ProvEv("get", providerName,
                          Lookup(providerRegistry, providerName), FALSE,
                          providerRegistry, providerRegistry)
              ELSE ProvEv("get", providerName, "", FALSE,
                          providerRegistry, providerRegistry))
    /\ UNCHANGED <<providerRegistry, engineVars, confVars, nameVars>>

\* GetProviderGenerator(providerName): panics on a name that is not there
GetProviderGenerator ==
    /\ Len(provOut) < MaxProvOps
    /\ \E providerName \in ProviderNames :
          provOut' = Append(provOut,
              IF HasProvider(providerRegistry, providerName)
              THEN ProvEv("get", providerName,
                          Lookup(providerRegistry, providerName), FALSE,
                          providerRegistry, providerRegistry)
              ELSE ProvEv("get", providerName, "", TRUE,
                          providerRegistry, providerRegistry))
    /\ UNCHANGED <<providerRegistry, engineVars, confVars, nameVars>>

InitRegistry ==
    /\ InitEnv(<<>>, 0, Config(NoRegex, NoRegex))
    /\ InitPar
    /\ InitExtra
    /\ InitName(<<>>, 0)
    /\ InitConfig("", NoClient)
    /\ InitProvider

NextProvider == RegisterProvider \/ GetProviderGenerator

\* any sequence of calls on the registry, a panic being recovered from
SpecProvider == InitRegistry /\ [][NextProvider]_vars

-----------------------------------------------------------------------------
(* The suite: Run with the test functions that m.Run() runs one after the  *)
(* other, each of them calling Test on the same environment                *)

nPropagation == <<"t", "e", "s", "t", "-", "c", "o", "n", "t", "e", "x", "t", "-",
                  "p", "r", "o", "p", "a", "g", "a", "t", "i", "o", "n">>

\* features.New("test-context-propagation").Assess("assess", +10)
featAdd10 == Feature(nPropagation, <<Call(LevelAssess, nAssess, Add(10))>>)

\* the environment of the propagation test: a Setup action that stores the
\* value the assessment takes to 100, an AfterEachTest action that takes 1
\* off, and a Finish action
envPropagation ==
    registerAll(<<>>, << <<roleSetup, <<Set(90)>> >>,
                         <<roleAfterTest, <<Add(0 - 1)>> >>,
                         <<roleFinish, <<Add(1)>> >> >>, 1)

SuiteEnvs == {envPropagation, envBeforeAfter}

\* the features a test function of the suite passes to Test
SuiteFeatureLists == {<<>>, <<featAdd10>>, <<featMul4, featAdd10>>}

InitSuite ==
    /\ \E acts \in SuiteEnvs : InitEnv(acts, 0, Config(NoRegex, NoRegex))
    /\ InitLib

\* the setup loop is over: m.Run() starts running the test functions
RunTestsBegin ==
    /\ runPc = "setup"
    /\ ri > Len(runActs)
    /\ runPc' = "tests"
    /\ UNCHANGED <<envVars, runActs, ri, exitCode, retCode, testVars, log,
                   regCalls, libVars>>

\* a test function calls Test
SuiteTest ==
    /\ runPc = "tests"
    /\ testsRun < MaxTests
    /\ \E fs \in SuiteFeatureLists : TestCall(fs)

\* (variant: every test function starts from the background context)
TestFuncEnd_FreshContext ==
    /\ runPc \in {"idle", "tests"}
    /\ testPc \in {"returned", "fatal"}
    /\ testsRun' = testsRun + 1
    /\ testPc' = "none"
    /\ feats' = <<>>
    /\ fi' = 1
    /\ tActs' = <<>>
    /\ ti' = 1
    /\ fctx' = 0
    /\ fpc' = "none"
    /\ si' = 1
    /\ failure' = NoFailure
    /\ ctx' = 0
    /\ UNCHANGED <<actions, cfg, runVars, log, regCalls, entered, outsideVars>>

\* the test function that called Test is over, by returning or by
\* t.Fatalf: nothing of the call is left but what it stored in e.ctx
TestFuncEnd ==
    /\ runPc \in {"idle", "tests"}
    /\ testPc \in {"returned", "fatal"}
    /\ testsRun' = testsRun + 1
    /\ testPc' = "none"
    /\ feats' = <<>>
    /\ fi' = 1
    /\ tActs' = <<>>
    /\ ti' = 1
    /\ fctx' = 0
    /\ fpc' = "none"
    /\ si' = 1
    /\ failure' = NoFailure
    /\ ctx' = ctx
    /\ UNCHANGED <<actions, cfg, runVars, log, regCalls, entered, outsideVars>>

\* m.Run() returns its exit code, then the finishes are collected
RunTestsEnd ==
    /\ runPc = "tests"
    /\ testPc = "none"
    /\ \E code \in ExitCodes :
          /\ exitCode' = code
          /\ log' = Append(log, RunnerEv(code))
    /\ runPc' = "finish"
    /\ runActs' = getFinishActions(actions)
    /\ ri' = 1
    /\ UNCHANGED <<envVars, retCode, testVars, regCalls, libVars>>

NextSuite ==
    \/ RunBegin
    \/ RunSetupStep
    \/ RunTestsBegin
    \/ SuiteTest
    \/ TestSteps
    \/ TestFuncEnd
    \/ RunTestsEnd
    \/ RunFinishStep
    \/ RunReturn

\* Run on the tests' environments, with up to MaxTests test functions
SpecSuite == InitSuite /\ [][NextSuite]_vars

-----------------------------------------------------------------------------
(* Nil contexts: NewWithContext, WithContext, and the nil checks of Test   *)
(* and Run.  A context is nil in an environment when an action returned    *)
(* nil and it was stored in e.ctx.                                         *)

\* a call that was rejected, or a constructor call that was not
EntryEv(call, ctxNil, cfgNil, result, msg) ==
    [call |-> call, ctxNil |-> ctxNil, cfgNil |-> cfgNil, result |-> result,
     msg |-> msg, at |-> Len(log)]

\* the contexts given to the constructors
CtxInputs == {NilCtx, 42}

\* the configs given to NewWithContext: none (nil) or one
CfgInputs == {<<>>, <<Config(NoRegex, NoRegex)>>}

\* NewWithContext(ctx, cfg): an error and no environment for a nil
\* argument, else the environment the model goes on with
NewWithContextOf(c, co) ==
    IF c = NilCtx
    THEN /\ entered' = <<EntryEv("NewWithContext", TRUE, co = <<>>,
                                               "error", "context is nil")>>
         /\ UNCHANGED <<actions, ctx, cfg, regCalls>>
    ELSE IF co = <<>>
    THEN /\ entered' = <<EntryEv("NewWithContext", FALSE, TRUE,
                                               "error", "environment config is nil")>>
         /\ UNCHANGED <<actions, ctx, cfg, regCalls>>
    ELSE /\ entered' = <<EntryEv("NewWithContext", FALSE, FALSE,
                                               "env", "")>>
         /\ ctx' = c
         /\ cfg' = co[1]
         /\ actions' = <<>>
         /\ regCalls' = <<>>

NewWithContext ==
    /\ Idle
    /\ \E c \in CtxInputs, co \in CfgInputs : NewWithContextOf(c, co)
    /\ UNCHANGED <<runVars, testVars, log, testsRun, outsideVars>>

\* e.WithContext(ctx): panics on nil, else a new environment with the
\* context, the same config and a copy of the actions
WithContextOf(c) ==
    IF c = NilCtx
    THEN /\ entered' = <<EntryEv("WithContext", TRUE, FALSE,
                                               "panic", "nil context")>>
         /\ runPc' = "panicked"
         /\ ctx' = ctx
    ELSE /\ entered' = <<EntryEv("WithContext", FALSE, FALSE,
                                               "env", "")>>
         /\ runPc' = runPc
         /\ ctx' = c

WithContext ==
    /\ Idle
    /\ \E c \in CtxInputs : WithContextOf(c)
    /\ UNCHANGED <<actions, cfg, runActs, ri, exitCode, retCode, testVars, log,
                   regCalls, testsRun, outsideVars>>

\* Test on an environment whose context is nil: panic("context not set")
TestPanics ==
    /\ runPc \in {"idle", "tests"}
    /\ testPc = "none"
    /\ ctx = NilCtx
    /\ testPc' = "panicked"
    /\ entered' = <<EntryEv("Test", TRUE, FALSE,
                                          "panic", "context not set")>>
    /\ UNCHANGED <<envVars, runVars, feats, fi, tActs, ti, fctx, fpc, si, failure,
                   regCalls, log, testsRun, outsideVars>>

\* Run on an environment whose context is nil: panic("context not set")
RunPanics ==
    /\ Idle
    /\ ctx = NilCtx
    /\ runPc' = "panicked"
    /\ entered' = <<EntryEv("Run", TRUE, FALSE,
                                          "panic", "context not set")>>
    /\ UNCHANGED <<envVars, runActs, ri, exitCode, retCode, testVars, regCalls,
                   log, testsRun, outsideVars>>

\* an action that returns a nil context and no error
ReturnsNil == Set(NilCtx)

\* an environment whose Setup action leaves a nil context
envNilSetup == registerAll(<<>>, << <<roleSetup, <<ReturnsNil>> >> >>, 1)

\* an environment whose AfterEachTest action leaves a nil context
envNilAfterTest == registerAll(<<>>, << <<roleAfterTest, <<ReturnsNil>> >> >>, 1)

NilEnvs == {envNilSetup, envNilAfterTest, envPropagation}

InitNil ==
    /\ \E acts \in NilEnvs : InitEnv(acts, 0, Config(NoRegex, NoRegex))
    /\ InitLib

\* the features a test function passes to Test
NilFeatureLists == {<<>>, <<featAdd10>>}

\* a test function calls Test, inside Run or on its own
NilTest ==
    /\ testsRun < MaxTests
    /\ \E fs \in NilFeatureLists : TestCall(fs)

NextNil ==
    \/ NewWithContext
    \/ WithContext
    \/ RunBegin
    \/ RunPanics
    \/ RunSetupStep
    \/ RunTestsBegin
    \/ NilTest
    \/ TestPanics
    \/ TestSteps
    \/ TestFuncEnd
    \/ RunTestsEnd
    \/ RunFinishStep
    \/ RunReturn

\* the entry points on environments whose actions may leave a nil context
SpecNil == InitNil /\ [][NextNil]_vars

-----------------------------------------------------------------------------
(* Two Test calls on one environment, made by test functions that run in   *)
(* parallel.  Each call has its own position in Test; e.ctx is the one     *)
(* field of the environment, and each read and each write of it is a step. *)

\* a history entry of the Test call p
ParEv(p, e) == [call |-> p, ev |-> e]

\* the steps of a feature in the order the closure of execFeature takes them
InOrder(steps) ==
    GetStepsByLevel(steps, LevelSetup)
        \o GetStepsByLevel(steps, LevelAssess)
        \o GetStepsByLevel(steps, LevelTeardown)

\* the closure of execFeature on its own ctx variable, from the step at
\* place k on: fatalAt is the place of the step that calls t.Fatal (0: none)
RECURSIVE execSteps(_, _, _, _, _, _)
execSteps(f, steps, k, c, fatalAt, evs) ==
    IF k > Len(steps) THEN [ctx |-> c, evs |-> evs]
    ELSE LET st == steps[k] IN
         IF /\ st.level = LevelAssess
            /\ cfg.assessmentRegex # NoRegex
            /\ ~MatchString(cfg.assessmentRegex, st.name)
         THEN execSteps(f, steps, k + 1, c, fatalAt,
                        Append(evs, SkipStepEv(f, st, c)))
         ELSE IF k = fatalAt
         THEN IF st.level = LevelAssess
              THEN execSteps(f, steps, k + 1, c, fatalAt,
                             Append(evs, StepEv(f, st, c, c, TRUE)))
              ELSE [ctx |-> c, evs |-> Append(evs, StepEv(f, st, c, c, TRUE))]
         ELSE execSteps(f, steps, k + 1, Apply(st.fn, c), fatalAt,
                        Append(evs, StepEv(f, st, c, Apply(st.fn, c), FALSE)))

\* execFeature(ctx, t, f) as a whole: what it returns and what it called
execFeature(f, ft, c, fatalAt) ==
    IF cfg.featureRegex # NoRegex /\ ~MatchString(cfg.featureRegex, ft.name)
    THEN [ctx |-> c, evs |-> <<SkipFeatureEv(f, ft.name, c)>>]
    ELSE execSteps(f, InOrder(ft.steps), 1, c, fatalAt, <<>>)

\* the histories of the two calls as one sequence of plain entries
RECURSIVE Tagged(_, _)
Tagged(p, evs) ==
    IF evs = <<>> THEN <<>>
    ELSE <<ParEv(p, Head(evs))>> \o Tagged(p, SubSeq(evs, 2, Len(evs)))

\* the features the parallel test functions pass to Test
ParFeatureLists == {<<featAdd10>>, <<featMul4>>}

\* the test function p calls Test
ParTestCall(p) ==
    /\ par[p].pc = "none"
    /\ ctx # NilCtx
    /\ \E fs \in ParFeatureLists :
          par' = [par EXCEPT ![p] =
                     [@ EXCEPT !.pc = "beforeTest", !.ph = "read", !.fs = fs,
                               !.acts = getBeforeTestActions(actions),
                               !.i = 1, !.fi = 1]]
    /\ UNCHANGED <<ctx, plog>>

ParInHookLoop(p) ==
    par[p].pc \in {"beforeTest", "beforeFeature", "afterFeature", "afterTest"}

\* action.run(e.ctx, e.cfg): the argument e.ctx is read
ParHookRead(p) ==
    /\ ParInHookLoop(p)
    /\ par[p].ph = "read"
    /\ par[p].i <= Len(par[p].acts)
    /\ par' = [par EXCEPT ![p] = [@ EXCEPT !.ph = "write", !.read = ctx]]
    /\ UNCHANGED <<ctx, plog>>

\* the action has run on what was read: e.ctx takes what it returned, then
\* t.Fatalf on error
ParHookWriteOf(p, a, failAt, keep) ==
    LET r == run(a, par[p].read, failAt, keep) IN
    /\ ctx' = r.ctx
    /\ plog' = Append(plog, ParEv(p, HookEv(a, par[p].read, r)))
    /\ par' = [par EXCEPT ![p] =
                  [@ EXCEPT !.ph = "read",
                            !.pc = IF r.err THEN "fatal" ELSE @,
                            !.i = IF r.err THEN @ ELSE @ + 1]]

ParHookWrite(p) ==
    /\ ParInHookLoop(p)
    /\ par[p].ph = "write"
    /\ \E o \in Outcomes(par[p].acts[par[p].i]) :
          ParHookWriteOf(p, par[p].acts[par[p].i], o[1], o[2])

\* a hook loop of the call is over: the next loop starts
ParAdvance(p) ==
    /\ ParInHookLoop(p)
    /\ par[p].ph = "read"
    /\ par[p].i > Len(par[p].acts)
    /\ par' = [par EXCEPT ![p] =
          CASE @.pc = "beforeTest" ->
                  [@ EXCEPT !.pc = "beforeFeature", !.fi = 1, !.i = 1,
                            !.acts = getBeforeFeatureActions(actions)]
            [] @.pc = "beforeFeature" ->
                  [@ EXCEPT !.pc = "feature"]
            [] @.pc = "afterFeature" ->
                  IF @.fi < Len(@.fs)
                  THEN [@ EXCEPT !.pc = "beforeFeature", !.fi = @ + 1, !.i = 1,
                                 !.acts = getBeforeFeatureActions(actions)]
                  ELSE [@ EXCEPT !.pc = "afterTest", !.i = 1,
                                 !.acts = getAfterTestActions(actions)]
            [] @.pc = "afterTest" ->
                  [@ EXCEPT !.pc = "returned"]]
    /\ UNCHANGED <<ctx, plog>>

\* e.execFeature(e.ctx, t, feature): the argument e.ctx is read
ParFeatureRead(p) ==
    /\ par[p].pc = "feature"
    /\ par[p].ph = "read"
    /\ par' = [par EXCEPT ![p] = [@ EXCEPT !.ph = "write", !.read = ctx]]
    /\ UNCHANGED <<ctx, plog>>

\* the feature has run on what was read: e.ctx takes what execFeature
\* returned, and the AfterEachFeature loop starts
ParFeatureWrite(p) ==
    /\ par[p].pc = "feature"
    /\ par[p].ph = "write"
    /\ LET ft == par[p].fs[par[p].fi] IN
       \E fatalAt \in 0 .. Len(ft.steps) :
          LET r == execFeature(par[p].fi, ft, par[p].read, fatalAt) IN
          /\ ctx' = r.ctx
          /\ plog' = plog \o Tagged(p, r.evs)
    /\ par' = [par EXCEPT ![p] =
                  [@ EXCEPT !.pc = "afterFeature", !.ph = "read", !.i = 1,
                            !.acts = getAfterFeatureActions(actions)]]

\* one step of the Test call p
ParTest(p) ==
    /\ \/ ParTestCall(p)
       \/ ParHookRead(p)
       \/ ParHookWrite(p)
       \/ ParAdvance(p)
       \/ ParFeatureRead(p)
       \/ ParFeatureWrite(p)
    /\ UNCHANGED <<actions, cfg, runVars, testVars, regCalls, log, entered,
                   testsRun, confVars, nameVars, provVars, extraVars>>

InitParallel ==
    /\ InitEnv(envBracket, 0, Config(NoRegex, NoRegex))
    /\ InitLib

ParallelTests == \E p \in ParCalls : ParTest(p)

NextParallel == ParallelTests

\* two test functions that run in parallel and call Test on one environment
SpecParallel == InitParallel /\ [][NextParallel]_vars

-----------------------------------------------------------------------------
(* Registration, Run and Test on one environment *)

\* (variant: a registration method starts the environment from the
\* background context again)
LifecycleRegister_ResetsContext(role) ==
    /\ Idle
    /\ Len(regCalls) < MaxActions
    /\ actions' = register(actions, role, <<Add(20)>>)
    /\ regCalls' = Append(regCalls, [role |-> role, funcs |-> <<Add(20)>>])
    /\ ctx' = 0
    /\ UNCHANGED <<cfg, runVars, testVars, log, libVars>>

\* one registration method called with one function
LifecycleRegister(role) == Register(role, <<Add(20)>>)

LifecycleRegistration == \E role \in Roles : LifecycleRegister(role)

\* the one test function of the suite, or the caller outside Run, calls
\* Test with one feature
LifecycleTest ==
    /\ testsRun = 0
    /\ TestCall(<<featAdd10>>)

NextLifecycle ==
    \/ LifecycleRegistration
    \/ RunBegin
    \/ RunSetupStep
    \/ RunTestsBegin
    \/ LifecycleTest
    \/ TestSteps
    \/ TestFuncEnd
    \/ RunTestsEnd
    \/ RunFinishStep
    \/ RunReturn

\* an empty environment on which the registration methods, Test and Run
\* are called in any order the program allows
SpecLifecycle == Init /\ [][NextLifecycle]_vars

-----------------------------------------------------------------------------
(* WithContext: the action list as a Go slice over a backing array *)

MaxWithRegs == 3

\* the address of the Config the first environment was made with
CfgRef == 1

\* the zero value of action, what an unused cell of an array holds
ZeroAction == [role |-> "", funcs |-> <<>>]

\* s[0:len(s)] and cap(s)
List(h, s) == IF s.arr = 0 THEN <<>> ELSE SubSeq(h[s.arr], 1, s.len)
Cap(h, s) == IF s.arr = 0 THEN 0 ELSE Len(h[s.arr])

\* the capacities a new array may get: sufficiently large for what is needed
NewCaps(needed) == needed .. (2 * needed)

\* append(s, xs...): in place when the capacity is enough, else into a new
\* array of capacity newcap that starts with a copy of s
append(h, s, xs, newcap) ==
    IF Len(xs) = 0 THEN [heap |-> h, slice |-> s]
    ELSE IF s.len + Len(xs) <= Cap(h, s)
    THEN [heap  |-> [h EXCEPT ![s.arr] =
                        [k \in 1 .. Len(h[s.arr]) |->
                            IF k > s.len /\ k <= s.len + Len(xs)
                            THEN xs[k - s.len] ELSE h[s.arr][k]]],
          slice |-> [arr |-> s.arr, len |-> s.len + Len(xs)]]
    ELSE [heap  |-> Append(h, [k \in 1 .. newcap |->
                                  IF k <= s.len THEN List(h, s)[k]
                                  ELSE IF k <= s.len + Len(xs) THEN xs[k - s.len]
                                  ELSE ZeroAction]),
          slice |-> [arr |-> Len(h) + 1, len |-> s.len + Len(xs)]]

\* e.Setup(funcs...) and the other registration methods on environment e
WithRegisterOf(e, role, funcs, newcap) ==
    LET a == [role |-> role, funcs |-> funcs]
        r == append(heap, wenv[e].actions, <<a>>, newcap) IN
    IF Len(funcs) = 0
    THEN /\ wenv' = [wenv EXCEPT ![e].calls = @ + 1]
         /\ heap' = heap
    ELSE /\ heap' = r.heap
         /\ wenv' = [wenv EXCEPT ![e].actions = r.slice,
                                 ![e].added = Append(@, a),
                                 ![e].calls = @ + 1]

WithRegister ==
    /\ wenv[1].calls + wenv[2].calls < MaxWithRegs
    /\ \E e \in {1, 2}, role \in {roleSetup, roleFinish}, funcs \in FuncSeqs :
          /\ wenv[e].made
          /\ \E newcap \in NewCaps(wenv[e].actions.len + 1) :
                WithRegisterOf(e, role, funcs, newcap)
    /\ UNCHANGED <<wcall, coreVars, confVars, nameVars, provVars, kindVars>>

\* one WithContext call: what it was given and what the receiver held
WithEv(c, panicked) ==
    [arg |-> c, panicked |-> panicked, ctx |-> wenv[1].ctx,
     cfg |-> wenv[1].cfg, list |-> List(heap, wenv[1].actions)]

\* (variant: the new environment takes the receiver's slice as it is)
WithContextCallOf_SharesSlice(c, newcap) ==
    IF c = NilCtx
    THEN /\ wcall' = <<WithEv(c, TRUE)>>
         /\ UNCHANGED <<heap, wenv>>
    ELSE /\ heap' = heap
         /\ wenv' = [wenv EXCEPT ![2] = [made |-> TRUE, ctx |-> c,
                                         cfg |-> wenv[1].cfg,
                                         actions |-> wenv[1].actions,
                                         added |-> <<>>, calls |-> 0]]
         /\ wcall' = <<WithEv(c, FALSE)>>

\* e.WithContext(ctx) on the first environment
WithContextCallOf(c, newcap) ==
    IF c = NilCtx
    THEN /\ wcall' = <<WithEv(c, TRUE)>>
         /\ UNCHANGED <<heap, wenv>>
    ELSE LET r == append(heap, NilSlice, List(heap, wenv[1].actions), newcap) IN
         /\ heap' = r.heap
         /\ wenv' = [wenv EXCEPT ![2] = [made |-> TRUE, ctx |-> c,
                                         cfg |-> wenv[1].cfg,
                                         actions |-> r.slice,
                                         added |-> <<>>, calls |-> 0]]
         /\ wcall' = <<WithEv(c, FALSE)>>

WithContextCall ==
    /\ wcall = <<>>
    /\ \E c \in CtxInputs :
          \E newcap \in NewCaps(wenv[1].actions.len) :
              WithContextCallOf(c, newcap)
    /\ UNCHANGED <<coreVars, confVars, nameVars, provVars, kindVars>>

\* the first environment as New() made it, no array allocated
InitWithContext ==
    /\ InitEnv(<<>>, 0, Config(NoRegex, NoRegex))
    /\ InitPar
    /\ InitName(<<>>, 0)
    /\ InitConfig("", NoClient)
    /\ InitProvider
    /\ InitKind
    /\ heap = <<>>
    /\ wenv = [e \in {1, 2} |->
                  IF e = 1 THEN [NoEnv EXCEPT !.made = TRUE, !.cfg = CfgRef]
                  ELSE NoEnv]
    /\ wcall = <<>>

NextWith == WithRegister \/ WithContextCall

\* registrations on an environment, one WithContext call on it, and
\* registrations on both environments after it
SpecWith == InitWithContext /\ [][NextWith]_vars

-----------------------------------------------------------------------------
(* The kind cluster provider: Create and KubeConfig on one value *)

MaxKindOps == 3

\* the empty kubeConfig field, and the file name the n-th TempFile call gives
NoPath == <<>>
TempFile(n) == <<n>>

\* how one saveKubeConfig run can end: the kind process fails, TempFile
\* fails, the copy into the file fails, or all is written
FetchOutcomes == {"procErr", "fileErr", "copyErr", "ok"}

\* saveKubeConfig(): the path is recorded once the file is there, before
\* the copy
saveKubeConfig(k, o) ==
    [k   |-> IF o \in {"copyErr", "ok"}
             THEN [k EXCEPT !.kubeConfig = TempFile(k.fetches + 1),
                            !.fetches = @ + 1]
             ELSE [k EXCEPT !.fetches = @ + 1],
     err |-> o # "ok"]

\* (variant: the fetch runs on every call)
KubeConfigOf_EveryCall(k, o) ==
    LET r == saveKubeConfig(k, o) IN
    [k       |-> [r.k EXCEPT !.done = TRUE],
     fetched |-> TRUE,
     res     |-> IF r.err THEN "fetchErr"
                 ELSE IF r.k.kubeConfig = NoPath THEN "notFound" ELSE "path",
     path    |-> IF r.err THEN NoPath ELSE r.k.kubeConfig]

\* KubeConfig(): fetchOnce.Do runs saveKubeConfig on the first call only,
\* and err is set by that run alone
KubeConfigOf(k, o) ==
    LET r == IF k.done THEN [k |-> k, err |-> FALSE] ELSE saveKubeConfig(k, o) IN
    [k       |-> [r.k EXCEPT !.done = TRUE],
     fetched |-> ~k.done,
     res     |-> IF r.err THEN "fetchErr"
                 ELSE IF r.k.kubeConfig = NoPath THEN "notFound" ELSE "path",
     path    |-> IF r.err THEN NoPath ELSE r.k.kubeConfig]

\* how the part of Create before KubeConfig can go: kind cannot be
\* installed, the cluster is there already, kind create cluster fails, the
\* cluster is not in the list after creation, or it was created
CreateOutcomes == {"installErr", "exists", "createErr", "notListed", "created"}

\* the options Create is given: none, or WithName
ClusterNames == {"", "c1"}

\* Create(opts...)
CreateOf(k, name, c, o) ==
    LET k1 == IF name = "" THEN k ELSE [k EXCEPT !.name = name] IN
    IF c \in {"exists", "created"}
    THEN KubeConfigOf(k1, o)
    ELSE [k |-> k1, fetched |-> FALSE, res |-> c, path |-> NoPath]

\* one call on the provider value and how it ended
KindEv(op, r) ==
    [op |-> op, res |-> r.res, path |-> r.path, fetched |-> r.fetched,
     recorded |-> r.k.kubeConfig]

KubeConfig ==
    /\ Len(kindLog) < MaxKindOps
    /\ \E o \in FetchOutcomes :
          LET r == KubeConfigOf(kind, o) IN
          /\ kind' = r.k
          /\ kindLog' = Append(kindLog, KindEv("KubeConfig", r))
    /\ UNCHANGED <<coreVars, confVars, nameVars, provVars, withVars>>

Create ==
    /\ Len(kindLog) < MaxKindOps
    /\ \E name \in ClusterNames, c \in CreateOutcomes, o \in FetchOutcomes :
          LET r == CreateOf(kind, name, c, o) IN
          /\ kind' = r.k
          /\ kindLog' = Append(kindLog, KindEv("Create", r))
    /\ UNCHANGED <<coreVars, confVars, nameVars, provVars, withVars>>

InitKindProvider ==
    /\ InitEnv(<<>>, 0, Config(NoRegex, NoRegex))
    /\ InitPar
    /\ InitExtra
    /\ InitName(<<>>, 0)
    /\ InitConfig("", NoClient)
    /\ InitProvider

NextKind == Create \/ KubeConfig

\* any sequence of Create and KubeConfig calls on one provider value
SpecKind == InitKindProvider /\ [][NextKind]_vars

-----------------------------------------------------------------------------
(* Properties *)

\* the actions registered under role r, in registration order
Registered(r) == SelectSeq(actions, LAMBDA a : a.role = r)

IdsOf(q) == [i \in 1 .. Len(q) |-> q[i].id]

IsHook(e, r) == e.kind = "hook" /\ e.role = r

IsPrefix(a, b) == Len(a) <= Len(b) /\ \A i \in 1 .. Len(a) : a[i] = b[i]

\* where in the history the test runner returned
RunnerAt == CHOOSE i \in 1 .. Len(log) : log[i].kind = "runner"

\* what ran after the test runner returned
AfterRunner == SubSeq(log, RunnerAt + 1, Len(log))

SetupFailed == \E i \in 1 .. Len(log) : IsHook(log[i], roleSetup) /\ log[i].err

\* C1: in Run, a Setup action that returns an error is the last thing that
\* runs: no later Setup action, no test runner, no Finish action, and Run
\* does not return.
C1_SetupErrorEndsRun ==
    \A i \in 1 .. Len(log) :
        (IsHook(log[i], roleSetup) /\ log[i].err)
            => /\ i = Len(log)
               /\ runPc = "exited"
               /\ exitCode = NoCode
               /\ retCode = NoCode

\* the second of two Setup actions failed, with a Finish action registered
C1_Witness ==
    /\ runPc = "exited"
    /\ Len(log) = 2
    /\ Len(Registered(roleSetup)) = 2
    /\ Len(Registered(roleFinish)) = 1

\* C2: when Run has returned, what ran after the test runner is exactly the
\* registered Finish actions, each once, in registration order.
C2_EveryFinishRunsInOrder ==
    runPc = "returned"
        => /\ IdsOf(AfterRunner) = IdsOf(Registered(roleFinish))
           /\ \A i \in 1 .. Len(AfterRunner) : IsHook(AfterRunner[i], roleFinish)

\* three Finish actions, the first two failed, the runner returned non-zero
C2_Witness ==
    /\ runPc = "returned"
    /\ Len(Registered(roleFinish)) = 3
    /\ AfterRunner[1].err
    /\ AfterRunner[2].err
    /\ ~AfterRunner[3].err
    /\ exitCode # 0

\* C3: the code Run returns is the code the test runner returned.
C3_RunReturnsRunnerCode ==
    runPc = "returned" => retCode = log[RunnerAt].id

\* the runner returned 0, a Finish action failed, Run returned
C3_Witness ==
    /\ runPc = "returned"
    /\ retCode = 0
    /\ \E i \in 1 .. Len(AfterRunner) : AfterRunner[i].err

\* what a history entry is, without the contexts and the exit code
Shape(e) == <<e.kind, e.role, IF e.kind = "runner" THEN 0 ELSE e.id>>

ShapesOf(q) == [i \in 1 .. Len(q) |-> Shape(q[i])]

HookShapes(r) == [i \in 1 .. Len(Registered(r)) |-> <<"hook", r, Registered(r)[i].id>>]

\* a Run without a failing Setup action: the setups, the runner, the finishes
ExpectedRun ==
    HookShapes(roleSetup) \o << <<"runner", "", 0>> >> \o HookShapes(roleFinish)

\* C4: while no Setup action has failed, the history of Run is a prefix of
\* "every Setup action once, the test runner, every Finish action once",
\* and the whole of it when Run has returned.
C4_SetupsThenRunnerThenFinishes ==
    ~SetupFailed
        => /\ IsPrefix(ShapesOf(log), ExpectedRun)
           /\ runPc = "returned" => Len(log) = Len(ExpectedRun)

\* two Setup actions and one Finish action, all run, Run returned
C4_Witness ==
    /\ runPc = "returned"
    /\ Len(Registered(roleSetup)) = 2
    /\ Len(Registered(roleFinish)) = 1
    /\ Len(log) = 4

\* the history of a Test call without the BeforeEachTest entries at its
\* start and the AfterEachTest entries at its end
Middle ==
    SubSeq(log, Len(Registered(roleBeforeTest)) + 1,
           Len(log) - Len(Registered(roleAfterTest)))

\* the AfterEachTest entries at the end of the history of a Test call
AfterTestTail ==
    SubSeq(log, Len(log) - Len(Registered(roleAfterTest)) + 1, Len(log))

\* C5: in a Test call with at least one feature, the first entries of the
\* history are the BeforeEachTest actions in registration order and no
\* BeforeEachTest action runs later; nothing but AfterEachTest actions runs
\* after an AfterEachTest action; and when Test has returned, the history
\* ends with the AfterEachTest actions, each once, in registration order.
C5_BeforeTestFirstAfterTestLast ==
    Len(feats) >= 1
        => /\ \A i \in 1 .. Len(log) :
                 /\ IsHook(log[i], roleBeforeTest)
                        <=> i <= Len(Registered(roleBeforeTest))
                 /\ IsHook(log[i], roleBeforeTest)
                        => log[i].id = Registered(roleBeforeTest)[i].id
           /\ \A i, j \in 1 .. Len(log) :
                 (i < j /\ IsHook(log[i], roleAfterTest))
                     => IsHook(log[j], roleAfterTest)
           /\ testPc = "returned"
                 => /\ IdsOf(AfterTestTail) = IdsOf(Registered(roleAfterTest))
                    /\ \A i \in 1 .. Len(AfterTestTail) : IsHook(AfterTestTail[i], roleAfterTest)
                    /\ \A i \in 1 .. Len(Middle) :
                          ~IsHook(Middle[i], roleAfterTest)

\* two features, two BeforeEachTest and two AfterEachTest actions, returned
C5_Witness ==
    /\ testPc = "returned"
    /\ Len(feats) = 2
    /\ actions = envAll
    /\ \E i \in 1 .. Len(log) : log[i].kind = "step" /\ log[i].f = 2

\* a history entry with the feature it belongs to (0 for a hook)
Shape2(e) == <<e.kind, e.role, e.id, e.f>>

Shapes2Of(q) == [i \in 1 .. Len(q) |-> Shape2(q[i])]

HookShapes2(r) ==
    [i \in 1 .. Len(Registered(r)) |-> <<"hook", r, Registered(r)[i].id, 0>>]

\* what the history holds of feature f: its steps and skips
EntriesOf(f) == SelectSeq(log, LAMBDA e : e.f = f)

\* every feature from f on, each between the BeforeEachFeature and the
\* AfterEachFeature actions
RECURSIVE Bracketed(_)
Bracketed(f) ==
    IF f > Len(feats) THEN <<>>
    ELSE HookShapes2(roleBeforeFeature) \o Shapes2Of(EntriesOf(f))
             \o HookShapes2(roleAfterFeature) \o Bracketed(f + 1)

NoFatalStep == \A i \in 1 .. Len(log) : ~log[i].err

\* C6: when a Test call with features has returned, its history between
\* the BeforeEachTest and the AfterEachTest actions is, feature after
\* feature: the BeforeEachFeature actions, what ran of the feature, the
\* AfterEachFeature actions.  With +20 before and -20 after two features
\* that multiply by 4, from 0, no filter set and no step failing, the
\* value is 300.
C6_FeatureHooksBracketEachFeature ==
    (testPc = "returned" /\ Len(feats) >= 1)
        => /\ Shapes2Of(Middle) = Bracketed(1)
           /\ (/\ actions = envBracket
               /\ feats = <<featMul4, featMul4>>
               /\ cfg = Config(NoRegex, NoRegex)
               /\ NoFatalStep)
                  => ctx = 300

\* the two features that multiply by 4 in the bracketing environment
C6_Witness ==
    /\ testPc = "returned"
    /\ actions = envBracket
    /\ feats = <<featMul4, featMul4>>
    /\ ctx = 300
    /\ Len(log) = 6

IsStepEv(e) == e.kind = "step"

\* the step of feature ft that a history entry is the call of
IsStepOf(e, ft) ==
    \E k \in 1 .. Len(ft.steps) :
        /\ ft.steps[k].id = e.id
        /\ ft.steps[k].level = e.role
        /\ ft.steps[k].name = e.name
        /\ ~e.err => e.out = Apply(ft.steps[k].fn, e.in)

\* C7: every step that runs is a step of the feature at the position the
\* feature loop is at, and these positions never go back: a step of an
\* earlier argument of Test runs before every step of a later one.
C7_FeaturesInArgumentOrder ==
    /\ \A i \in 1 .. Len(log) :
          IsStepEv(log[i])
              => /\ log[i].f \in 1 .. Len(feats)
                 /\ IsStepOf(log[i], feats[log[i].f])
    /\ \A i, j \in 1 .. Len(log) :
          (i < j /\ IsStepEv(log[i]) /\ IsStepEv(log[j]))
              => log[i].f <= log[j].f

\* two different features, steps of both have run
C7_Witness ==
    /\ testPc = "returned"
    /\ feats = <<featKeep, featMul4>>
    /\ \E i, j \in 1 .. Len(log) :
          /\ IsStepEv(log[i]) /\ log[i].f = 1
          /\ IsStepEv(log[j]) /\ log[j].f = 2

LevelRank(l) ==
    CASE l = LevelSetup    -> 1
      [] l = LevelAssess   -> 2
      [] l = LevelTeardown -> 3

\* C8: of two steps of one feature that ran, the one that ran first is not
\* of a later level: setups, then assessments, then teardowns.
C8_SetupAssessTeardown ==
    \A i, j \in 1 .. Len(log) :
        (i < j /\ IsStepEv(log[i]) /\ IsStepEv(log[j]) /\ log[i].f = log[j].f)
            => LevelRank(log[i].role) <= LevelRank(log[j].role)

StepCount == Cardinality({i \in 1 .. Len(log) : IsStepEv(log[i])})

\* a feature declared teardown, assessment, setup; all three steps ran
C8_Witness ==
    /\ testPc = "returned"
    /\ Len(feats[1].steps) = 3
    /\ feats[1].steps[1].level = LevelTeardown
    /\ feats[1].steps[2].level = LevelAssess
    /\ feats[1].steps[3].level = LevelSetup
    /\ StepCount = 3
    /\ NoFatalStep

\* C9: of two steps of the same level of one feature that ran, the one
\* declared first ran first.
C9_DeclarationOrderWithinLevel ==
    \A i, j \in 1 .. Len(log) :
        (/\ i < j
         /\ IsStepEv(log[i]) /\ IsStepEv(log[j])
         /\ log[i].f = log[j].f
         /\ log[i].role = log[j].role)
            => log[i].id < log[j].id

\* two assessments ran that were declared with another step between them
C9_Witness ==
    /\ testPc = "returned"
    /\ \E i, j \in 1 .. Len(log) :
          /\ i < j
          /\ IsStepEv(log[i]) /\ IsStepEv(log[j])
          /\ log[i].role = LevelAssess /\ log[j].role = LevelAssess
          /\ log[j].id - log[i].id >= 2

\* where the step of level l and name n is declared in steps (0: nowhere)
DeclaredAt(steps, l, n) ==
    IF \E k \in 1 .. Len(steps) : steps[k].level = l /\ steps[k].name = n
    THEN CHOOSE k \in 1 .. Len(steps) : steps[k].level = l /\ steps[k].name = n
    ELSE 0

\* a feature of four steps: a setup S, a teardown T, and the assessments
\* A1 (add-1) and A2 (add-2), A2 declared before A1
SA2A1T(steps) ==
    /\ Len(steps) = 4
    /\ DeclaredAt(steps, LevelSetup, <<>>) > 0
    /\ DeclaredAt(steps, LevelTeardown, <<>>) > 0
    /\ DeclaredAt(steps, LevelAssess, nAddTwo) > 0
    /\ DeclaredAt(steps, LevelAssess, nAddTwo)
           < DeclaredAt(steps, LevelAssess, nAddOne)

\* the steps that ran, in the order they ran
Ran == SelectSeq(log, IsStepEv)

RanNames == [i \in 1 .. Len(Ran) |-> <<Ran[i].role, Ran[i].name>>]

ExecutedSA2A1T ==
    /\ testPc = "returned"
    /\ Len(feats) = 1
    /\ SA2A1T(feats[1].steps)
    /\ NoFatalStep

\* C10 as stated: the feature S, A2, A1, T (A2 declared before A1) runs
\* S, then A1, then A2, then T.
C10_AsStated ==
    ExecutedSA2A1T
        => RanNames = << <<LevelSetup, <<>> >>, <<LevelAssess, nAddOne>>,
                         <<LevelAssess, nAddTwo>>, <<LevelTeardown, <<>> >> >>

\* C10 amended: the feature S, A2, A1, T (A2 declared before A1) runs S,
\* then A2, then A1, then T: the assessments in the order of declaration.
C10_AssessInDeclarationOrder ==
    ExecutedSA2A1T
        => RanNames = << <<LevelSetup, <<>> >>, <<LevelAssess, nAddTwo>>,
                         <<LevelAssess, nAddOne>>, <<LevelTeardown, <<>> >> >>

\* the feature declared T, A2, S, A1 has run
C10_Witness ==
    /\ ExecutedSA2A1T
    /\ feats[1].steps[1].level = LevelTeardown
    /\ feats[1].steps[2].name = nAddTwo
    /\ Len(Ran) = 4

-----------------------------------------------------------------------------
(* Context threading, filtering and failures in Test *)

\* C11: in a Test call with features, started from the context 0 of the
\* tests' environments, the first hook or step receives that context, every
\* later one receives exactly what the entry before it left (what it
\* returned; what it was given, for a step that never returned or was
\* skipped), and when Test has returned the environment's context is what
\* the last entry left.
C11_ContextThreadedInOrder ==
    Len(feats) >= 1
        => /\ Len(log) >= 1 => log[1].in = 0
           /\ \A i \in 2 .. Len(log) : log[i].in = log[i - 1].out
           /\ \A i \in 1 .. Len(log) :
                 (log[i].kind # "hook" /\ (log[i].err \/ log[i].kind # "step"))
                     => log[i].out = log[i].in
           /\ (testPc = "returned" /\ Len(log) >= 1) => ctx = log[Len(log)].out

\* two features between hooks of all four roles; a step and a hook after it
\* both changed the value
C11_Witness ==
    /\ testPc = "returned"
    /\ actions = envAll
    /\ Len(feats) = 2
    /\ \E i \in 1 .. Len(log) - 1 :
          /\ IsStepEv(log[i]) /\ log[i].out # log[i].in
          /\ log[i + 1].kind = "hook" /\ log[i + 1].out # log[i + 1].in
    /\ ctx # 0

\* the feature regex is set and does not match the name of feature f
FilteredOut(f) ==
    /\ cfg.featureRegex # NoRegex
    /\ ~MatchString(cfg.featureRegex, feats[f].name)

\* the sub-test of feature f is over
FeaturePassed(f) ==
    \/ fi > f
    \/ fi = f /\ testPc \in {"afterFeature", "afterTest", "returned"}

\* what a feature that ran to its end leaves in the history: one entry per
\* step, a call or the skip of an assessment
EveryStepOnce(f) ==
    LET es == EntriesOf(f) IN
    /\ Len(es) = Len(feats[f].steps)
    /\ {es[k].id : k \in 1 .. Len(es)} = 1 .. Len(feats[f].steps)
    /\ \A k \in 1 .. Len(es) : es[k].kind \in {"step", "skipStep"}

\* C12: a feature whose name the configured feature regex does not match
\* leaves one entry in the history, its skip: none of its steps is called,
\* the skip is not a failure, and what runs next receives the context the
\* feature was given.  A feature whose name matches, and every feature when
\* no feature regex is set, is never skipped, and when no step of it fails
\* every one of its steps is reached.
C12_FeatureRegexSkipsWholeFeature ==
    \A f \in 1 .. Len(feats) :
        LET es == EntriesOf(f) IN
        IF FilteredOut(f)
        THEN /\ Len(es) <= 1
             /\ FeaturePassed(f) => Len(es) = 1
             /\ \A k \in 1 .. Len(es) :
                   es[k].kind = "skipFeature" /\ ~es[k].err /\ es[k].out = es[k].in
             /\ \A i \in 1 .. Len(log) :
                   log[i].f = f
                       => /\ i < Len(log) => log[i + 1].in = log[i].in
                          /\ i = Len(log) => (ctx = log[i].in /\ testPc # "fatal")
        ELSE /\ \A k \in 1 .. Len(es) : es[k].kind # "skipFeature"
             /\ (FeaturePassed(f) /\ \A k \in 1 .. Len(es) : ~es[k].err)
                   => EveryStepOnce(f)

\* with the filter "^keep$": the feature named skip was skipped, the three
\* steps of the feature named keep ran after it
C12_Witness ==
    /\ testPc = "returned"
    /\ cfg = Config(reKeep, NoRegex)
    /\ actions = envBracket
    /\ feats = <<featSkip, featKeep>>
    /\ Len(EntriesOf(1)) = 1
    /\ Len(EntriesOf(2)) = 3
    /\ NoFatalStep

\* the assessment regex is set and does not match the name n
AssessFilteredOut(n) ==
    /\ cfg.assessmentRegex # NoRegex
    /\ ~MatchString(cfg.assessmentRegex, n)

\* no setup or teardown step called t.Fatal
NoFatalFeatureStep ==
    \A i \in 1 .. Len(log) : log[i].err => log[i].role = LevelAssess

\* the feature declared by the assessments add-1 (+1), add-2 (+2) and
\* take-1 (-1), in any order
ThreeAssessments(ft) ==
    /\ Len(ft.steps) = 3
    /\ \A k \in 1 .. 3 : ft.steps[k].level = LevelAssess
    /\ {ft.steps[k].name : k \in 1 .. 3} = {nAddOne, nAddTwo, nTakeOne}

\* C13: only an assessment whose name the configured assessment regex does
\* not match is skipped: its function is not called and what runs next
\* receives the context it was given; an assessment that is called has a
\* matching name; and in a feature whose setups and teardowns do not fail,
\* every other assessment, setup and teardown is still called.  The
\* assessments add-1, add-2 and take-1 under a filter matching the add-
\* names, from 42 (between a +20 and a -20 feature hook), give 45.
C13_AssessRegexSkipsOneAssessment ==
    /\ \A i \in 1 .. Len(log) :
          /\ log[i].kind = "skipStep"
                => /\ log[i].role = LevelAssess
                   /\ AssessFilteredOut(log[i].name)
                   /\ log[i].out = log[i].in
                   /\ i < Len(log) => log[i + 1].in = log[i].in
          /\ (IsStepEv(log[i]) /\ log[i].role = LevelAssess)
                => ~AssessFilteredOut(log[i].name)
    /\ (testPc = "returned" /\ Len(feats) = 1 /\ ~FilteredOut(1) /\ NoFatalFeatureStep)
          => /\ EveryStepOnce(1)
             /\ (/\ ThreeAssessments(feats[1])
                 /\ cfg = Config(NoRegex, reAdd)
                 /\ actions = envBracket
                 /\ NoFatalStep)
                    => ctx = 45

\* take-1 declared first and skipped, add-1 and add-2 called after it:
\* 45 from 42
C13_Witness ==
    /\ testPc = "returned"
    /\ cfg = Config(NoRegex, reAdd)
    /\ ThreeAssessments(feats[1])
    /\ feats[1].steps[1].name = nTakeOne
    /\ log[2].kind = "skipStep"
    /\ StepCount = 2
    /\ NoFatalStep
    /\ ctx = 45

\* the teardown steps of feature f, as declared
TeardownIds(f) == IdsOf(GetStepsByLevel(feats[f].steps, LevelTeardown))

\* the teardown steps of feature f that were called, in the order of the calls
RanTeardowns(f) == SelectSeq(EntriesOf(f), LAMBDA e : e.role = LevelTeardown)

\* no setup step of feature f called t.Fatal
SetupsOk(f) ==
    \A i \in 1 .. Len(log) :
        (log[i].f = f /\ log[i].role = LevelSetup) => ~log[i].err

\* C14 as stated: when the sub-test of a feature that was not skipped and
\* whose setups did not fail is over, every teardown step of the feature
\* has been called, in declared order.
C14_AsStated ==
    \A f \in 1 .. Len(feats) :
        (FeaturePassed(f) /\ ~FilteredOut(f) /\ SetupsOk(f))
            => IdsOf(RanTeardowns(f)) = TeardownIds(f)

\* C14 amended: when the sub-test of a feature that was not skipped and
\* whose setups did not fail is over, the teardown steps have been called
\* in declared order, whatever the assessments did, up to and including the
\* first teardown step that called t.Fatal: all of them when none did.
C14_TeardownsUntilOneFails ==
    \A f \in 1 .. Len(feats) :
        (FeaturePassed(f) /\ ~FilteredOut(f) /\ SetupsOk(f))
            => LET ran == RanTeardowns(f) IN
               /\ IsPrefix(IdsOf(ran), TeardownIds(f))
               /\ \A k \in 1 .. Len(ran) - 1 : ~ran[k].err
               /\ Len(ran) < Len(TeardownIds(f))
                     => (Len(ran) >= 1 /\ ran[Len(ran)].err)

\* one assessment called t.Fatal, one was skipped, and both teardown steps
\* were called after them
C14_Witness ==
    /\ testPc = "returned"
    /\ Len(TeardownIds(1)) = 2
    /\ Len(RanTeardowns(1)) = 2
    /\ \E i, j \in 1 .. Len(log) :
          /\ IsStepEv(log[i]) /\ log[i].role = LevelAssess /\ log[i].err
          /\ log[j].kind = "skipStep"

\* the history entry i is an action of role r that returned an error
FailedAt(i, r) == IsHook(log[i], r) /\ log[i].err

\* C15: in Test, a BeforeEachTest action that returned an error is the last
\* thing that runs and the test has failed: no later BeforeEachTest action,
\* no BeforeEachFeature action, no step of any feature.
C15_BeforeTestErrorEndsTest ==
    \A i \in 1 .. Len(log) :
        FailedAt(i, roleBeforeTest)
            => /\ i = Len(log)
               /\ testPc = "fatal"
               /\ failure # NoFailure
               /\ \A j \in 1 .. Len(log) : IsHook(log[j], roleBeforeTest)

\* the first of two BeforeEachTest actions failed, with features to run and
\* a BeforeEachFeature action registered
C15_Witness ==
    /\ testPc = "fatal"
    /\ actions = envAll
    /\ Len(feats) = 2
    /\ Len(log) = 1
    /\ FailedAt(1, roleBeforeTest)

\* C16: in Test, a BeforeEachFeature, AfterEachFeature or AfterEachTest
\* action that returned an error is the last thing that runs and the test
\* has failed: no action of any role, no step of the current or a later
\* feature and no AfterEachTest action runs after it.
C16_FeatureAndAfterTestErrorsEndTest ==
    \A i \in 1 .. Len(log) :
        (\/ FailedAt(i, roleBeforeFeature)
         \/ FailedAt(i, roleAfterFeature)
         \/ FailedAt(i, roleAfterTest))
            => /\ i = Len(log)
               /\ testPc = "fatal"
               /\ failure # NoFailure

\* the AfterEachFeature action failed after the first of two features, with
\* AfterEachTest actions registered
C16_Witness ==
    /\ testPc = "fatal"
    /\ actions = envAll
    /\ Len(feats) = 2
    /\ fi = 1
    /\ FailedAt(Len(log), roleAfterFeature)
    /\ StepCount >= 1

\* the message that names the phase of role r
PhaseMessage(r) ==
    CASE r = roleBeforeTest    -> "BeforeEachTest failure"
      [] r = roleBeforeFeature -> "BeforeEachFeature failure"
      [] r = roleAfterFeature  -> "AfterEachFeature failure"
      [] r = roleAfterTest     -> "AfterEachTest failure"

\* C17 as stated: when an action of Test returned an error, the failure
\* message names the role of that action.
C17_AsStated ==
    \A i \in 1 .. Len(log) :
        (log[i].kind = "hook" /\ log[i].err)
            => failure = PhaseMessage(log[i].role)

\* C17, what the code does: the message names the role of the failed action
\* when that role is BeforeEachTest or AfterEachTest, and names
\* BeforeEachTest when a BeforeEachFeature or AfterEachFeature action failed.
C17_FeatureHookFailuresNameBeforeTest ==
    \A i \in 1 .. Len(log) :
        (log[i].kind = "hook" /\ log[i].err)
            => failure = IF log[i].role = roleAfterTest
                         THEN PhaseMessage(roleAfterTest)
                         ELSE PhaseMessage(roleBeforeTest)

\* a BeforeEachFeature action failed in an environment without any
\* BeforeEachTest action, and the message names BeforeEachTest
C17_Witness ==
    /\ testPc = "fatal"
    /\ actions = envBracket
    /\ FailedAt(Len(log), roleBeforeFeature)
    /\ failure = PhaseMessage(roleBeforeTest)

\* Test is entered without features
ZeroFeatureCall == testPc = "none" /\ testPc' # "none" /\ Len(feats') = 0

\* C18: a Test call without features returns at once and the test has not
\* failed: the call leaves the context, the action list and the config as
\* they were and the history gains only the note that there was nothing to
\* do, and nothing runs after it: no BeforeEachTest, BeforeEachFeature,
\* AfterEachFeature or AfterEachTest action.
C18_ZeroFeaturesIsNoOp ==
    [][/\ ZeroFeatureCall
            => /\ testPc' = "returned"
               /\ failure' = NoFailure
               /\ ctx' = ctx
               /\ actions' = actions
               /\ cfg' = cfg
               /\ log' = Append(log, NoFeaturesEv)
       /\ (testPc # "none" /\ Len(feats) = 0) => UNCHANGED vars]_vars

\* Test has returned from a call without features in the environment that
\* has two actions of every per-test role
C18_Witness ==
    /\ testPc = "returned"
    /\ Len(feats) = 0
    /\ actions = envAll
    /\ log = <<NoFeaturesEv>>
    /\ ctx = 0

-----------------------------------------------------------------------------
(* Registration *)

\* a registration method is called without functions
EmptyRegistration ==
    /\ Len(regCalls') = Len(regCalls) + 1
    /\ Len(regCalls'[Len(regCalls')].funcs) = 0

\* C19: a registration call without functions, of any role and on any
\* action list, leaves the action list as it was, in length and in content.
C19_EmptyRegistrationIsNoOp ==
    [][EmptyRegistration
           => /\ Len(actions') = Len(actions)
              /\ actions' = actions]_vars

\* two calls without functions, of different roles, after a call that
\* registered an action
C19_Witness ==
    /\ Len(regCalls) = 3
    /\ Len(regCalls[1].funcs) > 0
    /\ Len(regCalls[2].funcs) = 0
    /\ Len(regCalls[3].funcs) = 0
    /\ regCalls[2].role # regCalls[3].role
    /\ Len(actions) = 1

\* the registration calls that were given functions, in call order
NonEmptyCalls == SelectSeq(regCalls, LAMBDA c : Len(c.funcs) > 0)

\* where in the action list the actions of role r are
PlacesOf(r) == {k \in 1 .. Len(actions) : actions[k].role = r}

\* C20: the action list is the registration calls that were given
\* functions, one action per call, in call order; and for every role r,
\* getActionsByRole(r) holds exactly the actions of role r of that list,
\* each once, in the order of their registration, and no action of
\* another role.
C20_ActionsByRoleInRegistrationOrder ==
    /\ Len(actions) = Len(NonEmptyCalls)
    /\ \A k \in 1 .. Len(actions) :
          /\ actions[k].id = k
          /\ actions[k].role = NonEmptyCalls[k].role
          /\ actions[k].funcs = NonEmptyCalls[k].funcs
    /\ \A r \in Roles :
          LET got == getActionsByRole(actions, r) IN
          /\ Len(got) = Cardinality(PlacesOf(r))
          /\ {got[i].id : i \in 1 .. Len(got)} = PlacesOf(r)
          /\ \A i \in 1 .. Len(got) :
                got[i].role = r /\ got[i] = actions[got[i].id]
          /\ \A i, j \in 1 .. Len(got) : i < j => got[i].id < got[j].id

\* three actions registered, the first and the third of one role with an
\* action of another role between them
C20_Witness ==
    /\ Len(actions) = 3
    /\ actions[1].role = actions[3].role
    /\ actions[2].role # actions[1].role
    /\ actions[1].funcs # actions[3].funcs
    /\ Len(getActionsByRole(actions, actions[1].role)) = 2

-----------------------------------------------------------------------------
(* Config.Client *)

IsBuild(e) == e.op = "build"

BuiltOk(e) == e.op = "build" /\ e.err = ""

IsReturn(e) == e.op = "Client"

\* which klient.NewWithKubeConfigFile call the history entry i is
BuildNo(i) == Cardinality({k \in 1 .. i : IsBuild(confLog[k])})

\* no call of the kinds ops was made between the history entries i and j
NoneBetween(i, j, ops) == \A k \in (i + 1) .. (j - 1) : confLog[k].op \notin ops

\* C21: on a Config used by one goroutine, as long as WithClient is not
\* called again: after a client was built no other is built, and every
\* Client call that returns after it returns that very client, which is
\* the one the Config holds; and after WithClient gave the Config a client,
\* no client is built and every Client call returns the given one.
C21_ClientBuiltOnceAndCached ==
    \A i, j \in 1 .. Len(confLog) :
        (i < j /\ NoneBetween(i, j, {"WithClient"}))
            => /\ BuiltOk(confLog[i])
                    => /\ ~IsBuild(confLog[j])
                       /\ IsReturn(confLog[j])
                            => /\ confLog[j].got = Handle(confLog[i].path, BuildNo(i))
                               /\ confLog[j].err = ""
                       /\ (j = Len(confLog) /\ AllIdle /\ confLog[j].op # "WithClient")
                            => client = Handle(confLog[i].path, BuildNo(i))
               /\ (confLog[i].op = "WithClient" /\ confLog[i].got # NoClient)
                    => /\ ~IsBuild(confLog[j])
                       /\ IsReturn(confLog[j])
                            => confLog[j].got = confLog[i].got /\ confLog[j].err = ""

\* a file path was set, a client was built from it, and three Client calls
\* returned that one client
C21_Witness ==
    /\ Len(Builds) = 1
    /\ Len(Returns) = 3
    /\ \A k \in 1 .. 3 : Returns[k].got = Handle(Builds[1].path, 1)
    /\ client = Handle(Builds[1].path, 1)

\* C22: a Client call that returns an error returns no client; the error is
\* the configuration error when no file path is set, and then nothing was
\* built; it is the connection error when the path is set, and then the
\* call built once, without success, and did not try again; a failed
\* construction is always reported by the call that made it; and after
\* either error the Config holds no client and the same path as before.
C22_ClientErrorsLeaveConfigUnchanged ==
    \A j \in 1 .. Len(confLog) :
        /\ (IsReturn(confLog[j]) /\ confLog[j].err # "")
              => /\ confLog[j].got = NoClient
                 /\ IF confLog[j].path = ""
                    THEN /\ confLog[j].err = "kubeconfig not set"
                         /\ j > 1 => ~IsBuild(confLog[j - 1])
                    ELSE /\ confLog[j].err = "envconfig: client failed"
                         /\ j > 1
                         /\ IsBuild(confLog[j - 1]) /\ ~BuiltOk(confLog[j - 1])
                         /\ j > 2 => ~IsBuild(confLog[j - 2])
                 /\ j = Len(confLog)
                       => client = NoClient /\ kubeconfig = confLog[j].path
        /\ (IsBuild(confLog[j]) /\ ~BuiltOk(confLog[j]))
              => /\ j < Len(confLog)
                 /\ IsReturn(confLog[j + 1])
                 /\ confLog[j + 1].err = "envconfig: client failed"
                 /\ confLog[j + 1].by = confLog[j].by
        /\ (IsReturn(confLog[j]) /\ confLog[j].err = "") => confLog[j].got # NoClient

\* both errors were returned: the configuration error before a path was
\* set, the connection error after
C22_Witness ==
    /\ Len(Returns) = 2
    /\ Returns[1].err = "kubeconfig not set"
    /\ Returns[2].err = "envconfig: client failed"
    /\ Len(Builds) = 1
    /\ client = NoClient
    /\ kubeconfig \in Paths

OkBuilds == {i \in 1 .. Len(confLog) : BuiltOk(confLog[i])}

OkReturns == {i \in 1 .. Len(confLog) : IsReturn(confLog[i]) /\ confLog[i].err = ""}

\* C23 as stated: when several goroutines call Client on a Config that has
\* a file path and no client, one client is built and every call that
\* succeeds returns that one client.
C23_AsStated ==
    /\ Cardinality(OkBuilds) <= 1
    /\ \A i, j \in OkReturns : confLog[i].got = confLog[j].got

\* C23, what the code does: every goroutine builds at most one client, and a
\* call that succeeds returns a client that one of the goroutines built
\* from the file path.
C23_EachCallerBuildsAtMostOnce ==
    /\ \A t \in Callers :
          Cardinality({i \in OkBuilds : confLog[i].by = t}) <= 1
    /\ \A j \in OkReturns :
          \E i \in OkBuilds :
              i < j /\ confLog[j].got = Handle(confLog[i].path, BuildNo(i))

\* two goroutines each built a client and each returned a different one
C23_Witness ==
    /\ Cardinality(OkBuilds) = 2
    /\ \E i, j \in OkReturns :
          /\ confLog[i].by # confLog[j].by
          /\ confLog[i].got # confLog[j].got
    /\ AllIdle

\* the first Client call to return after the history entry i, when no other
\* call on the Config was made between them
NextReturnAfter(i, j) ==
    /\ i < j
    /\ IsReturn(confLog[j])
    /\ NoneBetween(i, j, {"WithKubeconfigFile", "WithClient", "Client"})

PathSetAt(i) == confLog[i].op = "WithKubeconfigFile" /\ confLog[i].path # ""

\* C30 as stated: whatever the Config held before, the client that the next
\* Client call after WithKubeconfigFile(path) returns was built from path.
C30_AsStated ==
    \A i, j \in 1 .. Len(confLog) :
        (PathSetAt(i) /\ NextReturnAfter(i, j) /\ confLog[j].err = "")
            => confLog[j].got = Handle(confLog[i].path, confLog[j].got[1].n)

\* C30, what the code does: the client that the next Client call after
\* WithKubeconfigFile(path) returns was built from path when the Config
\* held no client at that time, and is the client the Config held
\* otherwise.
C30_PathIgnoredWhenClientCached ==
    \A i, j \in 1 .. Len(confLog) :
        (PathSetAt(i) /\ NextReturnAfter(i, j) /\ confLog[j].err = "")
            => IF confLog[i].got = NoClient
               THEN confLog[j].got = Handle(confLog[i].path, confLog[j].got[1].n)
               ELSE confLog[j].got = confLog[i].got

\* a client was built from one path, the other path was set, and the next
\* Client call returned the client built from the first
C30_Witness ==
    /\ Len(confLog) = 5
    /\ BuiltOk(confLog[2])
    /\ PathSetAt(4)
    /\ confLog[4].path # confLog[2].path
    /\ IsReturn(confLog[5])
    /\ confLog[5].got = Handle(confLog[2].path, 1)


(* ---------------------------------------------------------------- *)
(* A failing setup step                                             *)
(* ---------------------------------------------------------------- *)

\* the entry at place i is a setup step of its feature that called t.Fatal
SetupFatalAt(i) ==
    /\ IsStepEv(log[i])
    /\ log[i].role = LevelSetup
    /\ log[i].err

\* the entry at place j is a step of feature f, called or skipped
StepOfFeatureAt(j, f) ==
    /\ log[j].kind \in {"step", "skipStep"}
    /\ log[j].f = f

\* C29: after a setup step of a feature has called t.Fatal, no step of that
\* feature is called or skipped any more: no later setup step, no
\* assessment and no teardown step.
C29_SetupFailureAbortsFeature ==
    \A i \in 1 .. Len(log) :
        SetupFatalAt(i)
            => \A j \in (i + 1) .. Len(log) : ~StepOfFeatureAt(j, log[i].f)

\* the first of two setup steps called t.Fatal in a feature that also
\* declares an assessment and a teardown step, and the test went on to its end
C29_Witness ==
    /\ testPc = "returned"
    /\ \E i \in 1 .. Len(log) :
          /\ SetupFatalAt(i)
          /\ LET steps == feats[log[i].f].steps IN
             /\ Len(GetStepsByLevel(steps, LevelSetup)) >= 2
             /\ GetStepsByLevel(steps, LevelSetup)[1].id = log[i].id
             /\ Len(GetStepsByLevel(steps, LevelAssess)) >= 1
             /\ Len(GetStepsByLevel(steps, LevelTeardown)) >= 1


(* ---------------------------------------------------------------- *)
(* RandomName                                                       *)
(* ---------------------------------------------------------------- *)

\* RandomName has returned
Named == rnOut # <<>>

\* the length a call works with: the default one when it is asked for 0
AskedLength == IF rnArgs.n = 0 THEN DefaultLength ELSE rnArgs.n

DuplicateAt(i) ==
    /\ provOut[i].op = "register"
    /\ \E e \in provOut[i].before : e.name = provOut[i].name

\* the first call that registered the name
FirstRegistration(name) ==
    CHOOSE i \in 1 .. Len(provOut) :
        /\ provOut[i].op = "register"
        /\ provOut[i].name = name
        /\ \A k \in 1 .. (i - 1) :
              ~(provOut[k].op = "register" /\ provOut[k].name = name)

\* C27: RegisterProvider with a name that is registered already panics and
\* leaves the registry as it was, and every later GetProviderGenerator for
\* that name returns the generator that was registered first.
C27_DuplicateProviderPanics ==
    \A i \in 1 .. Len(provOut) :
        DuplicateAt(i) =>
            /\ provOut[i].panicked
            /\ provOut[i].after = provOut[i].before
            /\ \A j \in (i + 1) .. Len(provOut) :
                  (provOut[j].op = "get" /\ provOut[j].name = provOut[i].name)
                      => /\ ~provOut[j].panicked
                         /\ provOut[j].f
                               = provOut[FirstRegistration(provOut[i].name)].f

\* kind was registered with one generator, then with another one, and a
\* lookup of kind followed
C27_Witness ==
    /\ Len(provOut) = 3
    /\ provOut[1].op = "register" /\ provOut[1].name = "kind"
    /\ provOut[1].f = "genA" /\ ~provOut[1].panicked
    /\ DuplicateAt(2) /\ provOut[2].f = "genB"
    /\ provOut[3].op = "get" /\ provOut[3].name = "kind"
    /\ provOut[3].f = "genA"


(* ---------------------------------------------------------------- *)
(* The context across Run and the Test calls inside it              *)
(* ---------------------------------------------------------------- *)

\* the entry at place i is an action or a step that was handed a context
TakesContext(i) ==
    log[i].kind \in {"hook", "step", "skipStep", "skipFeature"}

\* the places of the entries that were handed a context
ContextPlaces == {i \in 1 .. Len(log) : TakesContext(i)}

\* j is the next place after i where a context was handed over
NextContextPlace(i, j) ==
    /\ i \in ContextPlaces
    /\ j \in ContextPlaces
    /\ i < j
    /\ \A k \in (i + 1) .. (j - 1) : k \notin ContextPlaces

\* C25: over a whole Run, with any number of Test calls inside m.Run(),
\* every action and step is handed the context the one before it left,
\* whichever entry point each of them belongs to: the first hook or step of
\* the first Test call is handed what the last Setup action returned, the
\* first of a later Test call what the Test call before it left, and the
\* first Finish action what the last Test call left; Run returns with the
\* context the last of them left in the environment.
C25_ContextCarriesAcrossEntryPoints ==
    /\ \A i \in ContextPlaces :
          (\A k \in 1 .. (i - 1) : k \notin ContextPlaces) => log[i].in = 0
    /\ \A i, j \in 1 .. Len(log) :
          NextContextPlace(i, j) => log[j].in = log[i].out
    /\ (runPc \in {"tests", "returned"} /\ testPc = "none"
           /\ ContextPlaces # {})
          => \E i \in ContextPlaces :
                /\ \A k \in (i + 1) .. Len(log) : k \notin ContextPlaces
                /\ ctx = log[i].out

\* the propagation environment with two test functions: Setup left 90, the
\* first Test call took it to 100 and 99, the second to 109 and 108, and
\* the Finish action was handed 108
C25_Witness ==
    /\ runPc = "returned"
    /\ testsRun = 2
    /\ actions = envPropagation
    /\ Len(log) = 7
    /\ log[1].role = roleSetup /\ log[1].out = 90
    /\ log[2].kind = "step" /\ log[2].in = 90 /\ log[2].out = 100
    /\ log[3].role = roleAfterTest /\ log[3].out = 99
    /\ log[4].kind = "step" /\ log[4].in = 99
    /\ log[5].role = roleAfterTest /\ log[5].out = 108
    /\ log[6].kind = "runner"
    /\ log[7].role = roleFinish /\ log[7].in = 108
    /\ ctx = 109


(* ---------------------------------------------------------------- *)
(* Nil contexts                                                     *)
(* ---------------------------------------------------------------- *)

\* every constructor call that was given a nil argument was rejected:
\* NewWithContext with an error and no environment, WithContext with a panic
NilArgumentsRejected ==
    \A i \in 1 .. Len(entered) :
        LET e == entered[i] IN
        /\ (e.call = "NewWithContext" /\ (e.ctxNil \/ e.cfgNil))
              => e.result = "error"
        /\ (e.call = "WithContext" /\ e.ctxNil) => e.result = "panic"
        /\ (e.call \in {"Test", "Run"} /\ e.ctxNil)
              => (e.result = "panic" /\ Len(log) = e.at)

\* no action and no step was handed a nil context at the start of Test or Run
NoNilAtEntry ==
    /\ (testPc = "beforeTest" /\ ti = 1) => ctx # NilCtx
    /\ (runPc = "setup" /\ ri = 1) => ctx # NilCtx

\* a step that enters Test or Run on an environment whose context is nil
\* is a panic that calls no action and no step
NilEntryPanics ==
    (ctx = NilCtx /\ ((testPc = "none" /\ testPc' # "none")
                         \/ (runPc = "idle" /\ runPc' # "idle")))
        => /\ testPc' = "panicked" \/ runPc' = "panicked"
           /\ log' = log
           /\ ctx' = ctx

\* C28: NewWithContext returns an error and no environment for a nil
\* context or a nil config, WithContext panics on a nil context, and Test
\* and Run on an environment whose context is nil panic before any action
\* or step is called.
C28_NilContextRejected ==
    /\ []NilArgumentsRejected
    /\ []NoNilAtEntry
    /\ [][NilEntryPanics]_vars

\* an AfterEachTest action left a nil context behind, and the next Test
\* call panicked without calling anything
C28_Witness ==
    /\ actions = envNilAfterTest
    /\ testsRun = 1
    /\ testPc = "panicked"
    /\ ctx = NilCtx
    /\ Len(entered) = 1
    /\ entered[1].call = "Test" /\ entered[1].result = "panic"
    /\ Len(log) = entered[1].at
    /\ Len(log) >= 2


(* ---------------------------------------------------------------- *)
(* Test calls that interleave                                       *)
(* ---------------------------------------------------------------- *)

\* the entries of the Test call p, in the order they were made
EntriesOfCall(p) == SelectSeq(plog, LAMBDA e : e.call = p)

\* C24 as stated: every hook and step of a Test call is handed the context
\* the hook or step before it of the same call returned, whatever the other
\* call does meanwhile.
C24_AsStated ==
    \A p \in ParCalls :
        LET mine == EntriesOfCall(p) IN
        \A k \in 2 .. Len(mine) : mine[k].ev.in = mine[k - 1].ev.out

\* what the code gives: every hook and step is handed a context that was
\* in e.ctx before, the initial one or one that some hook or step of either
\* call returned
C24_ContextComesFromSharedField ==
    \A j \in 1 .. Len(plog) :
        \/ plog[j].ev.in = 0
        \/ \E i \in 1 .. (j - 1) : plog[j].ev.in = plog[i].ev.out

\* both calls are over, none of their hooks and steps failed, and a hook
\* of one call was handed a context that a hook of the other call returned
C24_Witness ==
    /\ \A p \in ParCalls : par[p].pc = "returned"
    /\ \A j \in 1 .. Len(plog) : ~plog[j].ev.err
    /\ \E p \in ParCalls :
          LET mine == EntriesOfCall(p) IN
          \E k \in 2 .. Len(mine) :
             /\ mine[k].ev.in # mine[k - 1].ev.out
             /\ \E i \in 1 .. Len(plog) :
                   /\ plog[i].call # p
                   /\ plog[i].ev.out = mine[k].ev.in


(* ---------------------------------------------------------------- *)
(* A feature whose sub-test fails                                   *)
(* ---------------------------------------------------------------- *)

\* a step of some feature called t.Fatal
SomeStepFatal == \E i \in 1 .. Len(log) : IsStepEv(log[i]) /\ log[i].err

\* no action of the Test call returned an error
NoHookError == \A i \in 1 .. Len(log) : log[i].kind = "hook" => ~log[i].err

\* the Test call is not going on any more
TestOver == testPc \in {"returned", "fatal"}

HooksAt(a, b, r) ==
    /\ a >= 1
    /\ b <= Len(log)
    /\ b - a + 1 = Len(Registered(r))
    /\ \A k \in a .. b :
          /\ IsHook(log[k], r)
          /\ log[k].id = Registered(r)[k - a + 1].id

\* the feature regex skipped the feature at place i of the history
SkippedAt(i) == log[i].kind = "skipFeature"

\* C32: the skip of a feature by the feature regex comes right after the
\* BeforeEachFeature actions, all of them, whose last one returned the
\* context the skipped feature was handed; and once the Test call is over
\* without a failed action, the AfterEachFeature actions, all of them,
\* come right after the skip, the first one handed that same context.
C32_HooksRunAroundSkippedFeature ==
    \A i \in 1 .. Len(log) :
        SkippedAt(i) =>
            LET nb == Len(Registered(roleBeforeFeature))
                na == Len(Registered(roleAfterFeature))
            IN  /\ HooksAt(i - nb, i - 1, roleBeforeFeature)
                /\ nb >= 1 => log[i].in = log[i - 1].out
                /\ (TestOver /\ NoHookError)
                      => /\ HooksAt(i + 1, i + na, roleAfterFeature)
                         /\ na >= 1 => log[i + 1].in = log[i].in

\* with the filter "^keep$" in the bracketing environment, the feature
\* named skip was skipped between +20 and -20, and the feature named keep
\* ran after it between +20 and -20
C32_Witness ==
    /\ testPc = "returned"
    /\ actions = envBracket
    /\ cfg = Config(reKeep, NoRegex)
    /\ feats = <<featSkip, featKeep>>
    /\ NoFatalStep
    /\ Len(log) = 8
    /\ IsHook(log[1], roleBeforeFeature) /\ log[1].out = 20
    /\ SkippedAt(2) /\ log[2].in = 20
    /\ IsHook(log[3], roleAfterFeature) /\ log[3].in = 20 /\ log[3].out = 0
    /\ IsHook(log[4], roleBeforeFeature)
    /\ IsStepEv(log[5])


(* ---------------------------------------------------------------- *)
(* An assessment that fails                                         *)
(* ---------------------------------------------------------------- *)

\* the entry at place i is an assessment that called t.Fatal
AssessFatalAt(i) ==
    /\ IsStepEv(log[i])
    /\ log[i].role = LevelAssess
    /\ log[i].err

\* the places before i of the steps of the same feature that returned
ReturnedBefore(i) ==
    {k \in 1 .. (i - 1) : IsStepEv(log[k]) /\ log[k].f = log[i].f /\ ~log[k].err}

\* the assessments of feature f in the history, called or skipped
AssessEntries(f) == SelectSeq(EntriesOf(f), LAMBDA e : e.role = LevelAssess)

\* C33: an assessment that calls t.Fatal leaves the feature's context as
\* it was handed to it, which is the context the last step of the feature
\* that returned had produced; what runs next is handed that same
\* context; and the assessments declared after it are still reached: when
\* the feature's sub-test is over and no setup step failed, every
\* assessment of the feature is in the history, in declaration order.
C33_FailedAssessmentKeepsContext ==
    /\ \A i \in 1 .. Len(log) :
          AssessFatalAt(i)
              => /\ log[i].out = log[i].in
                 /\ ReturnedBefore(i) # {}
                       => \E k \in ReturnedBefore(i) :
                             /\ \A m \in ReturnedBefore(i) : m <= k
                             /\ log[i].in = log[k].out
                 /\ i < Len(log) => log[i + 1].in = log[i].in
                 /\ i = Len(log) => (testPc = "feature" => fctx = log[i].in)
    /\ \A f \in 1 .. Len(feats) :
          (FeaturePassed(f) /\ ~FilteredOut(f) /\ SetupsOk(f))
              => IdsOf(AssessEntries(f))
                    = IdsOf(GetStepsByLevel(feats[f].steps, LevelAssess))

\* setup (x2), add-1 that called t.Fatal, add-2 and teardown (x3), from 42
\* between the +20 and -20 hooks: add-2 was handed the 124 the setup had
\* produced, and the value is 358
C33_Witness ==
    /\ testPc = "returned"
    /\ cfg = Config(NoRegex, NoRegex)
    /\ Len(log) = 6
    /\ log[2].role = LevelSetup /\ log[2].out = 124
    /\ AssessFatalAt(3) /\ log[3].name = nAddOne
    /\ IsStepEv(log[4]) /\ log[4].name = nAddTwo /\ ~log[4].err
    /\ log[4].in = 124
    /\ log[5].role = LevelTeardown /\ ~log[5].err
    /\ ctx = 358


(* ---------------------------------------------------------------- *)
(* The context a failing Finish action returns                      *)
(* ---------------------------------------------------------------- *)

\* the entry at place i is a Finish action that returned an error
FinishFailedAt(i) == IsHook(log[i], roleFinish) /\ log[i].err

\* C34: the context a Finish action returns with its error becomes the
\* environment's context: the Finish action after it is handed that
\* context, and when it was the last one Run ends with that context in
\* the environment.
C34_FinishErrorContextAdopted ==
    \A i \in 1 .. Len(log) :
        FinishFailedAt(i)
            => /\ i < Len(log)
                     => (IsHook(log[i + 1], roleFinish) /\ log[i + 1].in = log[i].out)
               /\ i = Len(log) => ctx = log[i].out

\* the first of two Finish actions returned an error with a context other
\* than the one it was handed, and the second was handed that context
C34_Witness ==
    /\ runPc = "returned"
    /\ Len(Registered(roleFinish)) = 2
    /\ Len(AfterRunner) = 2
    /\ AfterRunner[1].err
    /\ AfterRunner[1].out # AfterRunner[1].in
    /\ AfterRunner[2].in = AfterRunner[1].out
    /\ ~AfterRunner[2].err


\* RegisterProvider(name, f) succeeded at call i
RegisteredAt(i) ==
    /\ provOut[i].op = "register"
    /\ ~provOut[i].panicked

\* no call before call j registered the name
NeverRegisteredBefore(j, name) ==
    \A k \in 1 .. (j - 1) : ~(RegisteredAt(k) /\ provOut[k].name = name)

\* C37: after RegisterProvider(name, f) succeeded, every GetProviderGenerator(name)
\* returns f, whatever other names were registered in between, and
\* GetProviderGenerator for a name that was never registered panics and
\* returns no generator.
C37_ProviderLookup ==
    /\ \A i \in 1 .. Len(provOut) :
          RegisteredAt(i) =>
              /\ [name |-> provOut[i].name, f |-> provOut[i].f] \in provOut[i].after
              /\ \A j \in (i + 1) .. Len(provOut) :
                    /\ (provOut[j].op = "get" /\ provOut[j].name = provOut[i].name)
                          => /\ ~provOut[j].panicked
                             /\ provOut[j].f = provOut[i].f
                    /\ (provOut[j].op = "register" /\ provOut[j].name # provOut[i].name)
                          => [name |-> provOut[i].name, f |-> provOut[i].f]
                                 \in provOut[j].after
    /\ \A j \in 1 .. Len(provOut) :
          (provOut[j].op = "get" /\ NeverRegisteredBefore(j, provOut[j].name))
              => /\ provOut[j].panicked
                 /\ provOut[j].f \notin Generators

\* kind was registered, then another name, then kind was looked up; or a
\* name nobody registered was looked up
C37_Witness ==
    \/ /\ Len(provOut) = 3
       /\ RegisteredAt(1)
       /\ RegisteredAt(2)
       /\ provOut[2].name # provOut[1].name
       /\ provOut[3].op = "get"
       /\ provOut[3].name = provOut[1].name
       /\ provOut[3].f = provOut[1].f
       /\ provOut[3].f # provOut[2].f
    \/ /\ Len(provOut) = 1
       /\ provOut[1].op = "get"
       /\ provOut[1].panicked


\* a step inside a Test or Run call: it starts one, ends one or is between
InTestOrRun == ~Idle \/ ~Idle'

\* a step that is a call of a registration method
IsRegistrationCall == regCalls' # regCalls

\* C36: no step of Test or Run changes the environment's action list or
\* replaces its Config, and no call of a registration method changes the
\* environment's context (nor its Config); a registration call appends at
\* most one action and leaves the earlier ones where they were.
C36_RegistrationAndExecutionSeparate ==
    [][/\ InTestOrRun => (actions' = actions /\ cfg' = cfg)
       /\ IsRegistrationCall
             => /\ ctx' = ctx
                /\ cfg' = cfg
                /\ IsPrefix(actions, actions')
                /\ Len(actions') <= Len(actions) + 1]_vars

\* Test ran a feature outside Run and changed the context, a BeforeEachTest
\* action was registered after it (the history has no run of it), and Run
\* then ran to its return with every action still in the list
C36_Witness ==
    /\ runPc = "returned"
    /\ testsRun = 1
    /\ Len(actions) = Len(regCalls)
    /\ Len(actions) >= 2
    /\ ctx # 0
    /\ \E i \in 1 .. Len(log) : IsStepEv(log[i])
    /\ \E k \in 1 .. Len(actions) :
          /\ actions[k].role = roleBeforeTest
          /\ \A i \in 1 .. Len(log) : ~(log[i].kind = "hook" /\ log[i].id = k)


\* WithContext returned a second environment
WithContextReturned == Len(wcall) = 1 /\ ~wcall[1].panicked

\* what was registered on the receiver after the WithContext call
AddedAfterCall ==
    SubSeq(wenv[1].added, Len(wcall[1].list) + 1, Len(wenv[1].added))

\* C35: WithContext(ctx) returns a new environment with the given context,
\* the receiver's Config reference and the receiver's action list as it was
\* at the call; the receiver keeps its context and its list, and from then on
\* each environment's list is the list at the call followed by exactly what
\* was registered on that environment, so no registration on one of them
\* shows in the other.
C35_WithContextCopiesActions ==
    WithContextReturned =>
        /\ wenv[2].made
        /\ wenv[2].ctx = wcall[1].arg
        /\ wenv[2].cfg = wcall[1].cfg
        /\ wenv[1].cfg = wcall[1].cfg
        /\ wenv[1].ctx = wcall[1].ctx
        /\ List(heap, wenv[2].actions) = wcall[1].list \o wenv[2].added
        /\ List(heap, wenv[1].actions) = wcall[1].list \o AddedAfterCall

\* the receiver had one action in an array with room for a second one when
\* WithContext was called, and afterwards each environment registered an
\* action of its own, the receiver's into that room
C35_Witness ==
    /\ WithContextReturned
    /\ Len(wcall[1].list) = 1
    /\ Len(AddedAfterCall) = 1
    /\ Len(wenv[2].added) = 1
    /\ AddedAfterCall # wenv[2].added
    /\ wenv[1].actions.arr = 1
    /\ Cap(heap, wenv[1].actions) = 2
    /\ wenv[2].actions.arr # 1


\* the calls that ran saveKubeConfig
FetchCalls == {i \in 1 .. Len(kindLog) : kindLog[i].fetched}

\* call j got as far as KubeConfig()
ReachedKubeConfig(j) == kindLog[j].res \in {"path", "notFound", "fetchErr"}

\* call j returned what the attempt of call i left: its path, or the
\* failed to find kubeconfig file error when it left none
ReturnsRecorded(i, j) ==
    IF kindLog[i].recorded = NoPath
    THEN kindLog[j].res = "notFound"
    ELSE kindLog[j].res = "path" /\ kindLog[j].path = kindLog[i].recorded

\* saveKubeConfig runs at most once and only the call that ran it returns
\* its error
FetchedOnce ==
    /\ kind.fetches <= 1
    /\ Cardinality(FetchCalls) = kind.fetches
    /\ \A i \in 1 .. Len(kindLog) : kindLog[i].res = "fetchErr" => i \in FetchCalls

\* C38 as stated: saveKubeConfig runs at most once, only the call that ran
\* it returns its error, and every Create or KubeConfig call after that one
\* returns the recorded path or the failed to find kubeconfig file error.
C38_AsStated ==
    /\ FetchedOnce
    /\ \A i \in FetchCalls :
          \A j \in (i + 1) .. Len(kindLog) : ReturnsRecorded(i, j)

\* C38: saveKubeConfig runs at most once, only the call that ran it returns
\* its error, and every later call that gets as far as KubeConfig (every
\* KubeConfig call, and every Create call that found or created the cluster)
\* returns the path that attempt recorded, or the failed to find kubeconfig
\* file error when it recorded none.
C38_KubeConfigFetchedOnce ==
    /\ FetchedOnce
    /\ \A i \in FetchCalls :
          \A j \in (i + 1) .. Len(kindLog) :
              ReachedKubeConfig(j) => ReturnsRecorded(i, j)

\* the first call ran the fetch, which failed after the path was recorded,
\* and returned the error; a KubeConfig call and a Create call after it
\* returned the path
C38_Witness ==
    /\ Len(kindLog) = 3
    /\ kindLog[1].fetched
    /\ kindLog[1].res = "fetchErr"
    /\ kindLog[1].recorded # NoPath
    /\ kindLog[2].op = "KubeConfig"
    /\ kindLog[2].res = "path"
    /\ kindLog[3].op = "Create"
    /\ kindLog[3].res = "path"
    /\ kindLog[3].path = kindLog[1].recorded

====
